---- MODULE Spec2Model ----
(***************************************************************************)
(* Model of the ALM adapters subsystem (services/alm-adapters):            *)
(*   - BaseALMAdapter.map_fields and the response envelopes,               *)
(*   - sync_project and its create/update paths in the Jira, Azure DevOps  *)
(*     and Polarion adapters,                                              *)
(*   - the contract operations of the three adapters,                      *)
(*   - ALMFactory: adapter registration and the pass-through operations.   *)
(***************************************************************************)
EXTENDS Integers, Sequences, FiniteSets, TLC

VARIABLES
    kind,          \* which adapter class the instance under test is
    client,        \* the adapter's client handle is set (jira_client / wit_client / http_client+session_id)
    sync_config,   \* the sync_config dict passed to sync_project
    records,       \* the caller's requirement dicts, by req_id
    remote,        \* the backend's work items, id = position
    last,          \* the last sync_project call: arguments, remote calls issued, returned dict
    adapters,      \* ALMFactory.adapters
    configurations,\* ALMFactory.configurations
    initOutcome,   \* what each backend's initialize() does when called
    flast,         \* the last ALMFactory operation: arguments, adapter method invoked, outcome
    mlast,         \* the last map_fields call: arguments and returned dict
    olast,         \* the last adapter contract operation: arguments and outcome
    parked,        \* the work items of the backends the caller is not talking to
    session        \* PolarionAdapter's http_client and session_id, the requests posted,
                   \* and where its sync_project and cleanup coroutines stand

vars == <<kind, client, sync_config, records, remote, last, parked,
          adapters, configurations, initOutcome, flast, mlast, olast, session>>

syncVars == <<kind, client, sync_config, records, remote, last, parked, session>>
factoryVars == <<adapters, configurations, initOutcome, flast>>

----------------------------------------------------------------------------
(* Bounds of the model *)

\* requirements per sync_project call
MaxBatch == 2
\* work items the modelled backend can hold
MaxItems == 2

----------------------------------------------------------------------------
(* Values *)

Backends == <<"jira", "azure_devops", "polarion">>
BackendSet == {Backends[i] : i \in 1..Len(Backends)}

\* a key that is not in a dict, and Python's None
Absent == "<absent>"
None == "<None>"
NoCall == [op |-> "none"]

\* requirement.get("text", "")[:100]: the one long text is cut, short ones are kept
Trunc100(v) == IF v = "LONG-TEXT" THEN "LONG-TEXT[:100]" ELSE v

\* `field in requirement`
Has(d, k) == d[k] # Absent

\* requirement.get(k, default)
Get(d, k, default) == IF Has(d, k) THEN d[k] ELSE default

\* the key of the requirement dict under which each adapter looks for its reference
RefKey(k) ==
    CASE k = "jira" -> "jira_issue_key"
      [] k = "azure_devops" -> "ado_work_item_id"
      [] k = "polarion" -> "polarion_work_item_id"

\* the key of sync_config that names the target project
ProjectKey(k) ==
    CASE k = "jira" -> "jira_project_key"
      [] k = "azure_devops" -> "ado_project"
      [] k = "polarion" -> "polarion_project"

\* the backend field that holds the title, and the one that holds the description
TitleField(k) ==
    CASE k = "jira" -> "summary"
      [] k = "azure_devops" -> "System.Title"
      [] k = "polarion" -> "title"

DescField(k) ==
    CASE k = "jira" -> "description"
      [] k = "azure_devops" -> "System.Description"
      [] k = "polarion" -> "description"

\* a custom field of the backend, the target of a mapping of std_tags
TagField(k) ==
    CASE k = "jira" -> "labels"
      [] k = "azure_devops" -> "System.Tags"
      [] k = "polarion" -> "hyperlinks"

ItemFields == {"summary", "description", "labels", "project", "issuetype",
               "System.Title", "System.Description", "System.Tags", "title", "hyperlinks"}

EmptyItem == [f \in ItemFields |-> Absent]

\* mutant: only an absent key counts as missing
project_missing_absent_only(project) == project = Absent

\* `if not project:` on the value of .get(...): the key is absent or its value empty
project_missing(project) == project \in {Absent, ""}

----------------------------------------------------------------------------
(* Payloads: a dict or a patch document is a sequence of writes             *)
(* [op, path, value]; a work item is a function from field to value.        *)

Write(op, path, value) == [op |-> op, path |-> path, value |-> value]

Paths(doc) == {doc[i].path : i \in 1..Len(doc)}

\* d[k]: the value of the last write to k (a dict holds one write per key)
ValueAt(doc, k) ==
    LET hits == {i \in 1..Len(doc) : doc[i].path = k}
    IN doc[CHOOSE i \in hits : \A j \in hits : j <= i].value

\* d[k] = v on a Python dict: a key keeps its place, a new key goes last
DictSet(doc, k, v) ==
    IF k \in Paths(doc)
    THEN [i \in 1..Len(doc) |-> IF doc[i].path = k THEN Write(doc[i].op, k, v) ELSE doc[i]]
    ELSE Append(doc, Write("set", k, v))

RECURSIVE DictUpdate(_, _)
\* d.update(other), and the loop `for ...: d[k] = v`
DictUpdate(doc, writes) ==
    IF writes = <<>> THEN doc
    ELSE DictUpdate(DictSet(doc, Head(writes).path, Head(writes).value), Tail(writes))

RECURSIVE ApplyWrites(_, _)
\* the backend stores what it is sent, write by write
ApplyWrites(item, doc) ==
    IF doc = <<>> THEN item
    ELSE ApplyWrites([item EXCEPT ![Head(doc).path] = Head(doc).value], Tail(doc))

\* title of the remote item built by the three sync paths
DefaultTitle(req) == Get(req, "title", Trunc100(Get(req, "text", "")))

\* the loop over sync_config["field_mapping"] of the sync paths: entries whose
\* source field is in the requirement, in mapping order, value copied as is
MappedEntries(req, field_mapping) ==
    SelectSeq(field_mapping, LAMBDA e : Has(req, e.src))

\* a field_mapping value that is a dict {"field": ..., "transform": ...}, the
\* form map_fields accepts, met by the sync paths, which expect a field name
DictTarget == "<dict>"

TransformEntry(src, field, transform) ==
    [src |-> src, tgt |-> DictTarget, field |-> field, transform |-> transform]

HasDictTarget(entries) == \E i \in 1..Len(entries) : entries[i].tgt = DictTarget

----------------------------------------------------------------------------
(* BaseALMAdapter.map_fields *)

\* one item of the field_mapping dict given to map_fields: the source field and
\* its target, a flat field name (struct = FALSE) or a dict (struct = TRUE) that
\* may hold "field" and "transform"
MapEntry(src, struct, field, transform) ==
    [src |-> src, struct |-> struct, field |-> field, transform |-> transform]

\* what the "transform" key of a target dict holds: nothing, a function that
\* upper-cases, a function that raises, a value that is not callable
Transforms == {Absent, "upper", "raises", "not_callable"}

\* str.upper on the values of the model
Upper(v) ==
    CASE v = "Validate login" -> "VALIDATE LOGIN"
      [] v = "body" -> "BODY"
      [] v = "LONG-TEXT" -> "LONG-TEXT"
      [] v = "iso_13485" -> "ISO_13485"
      [] OTHER -> v

\* `if callable(transform_func): value = transform_func(value)`
ApplyTransform(transform, value) ==
    IF transform = "upper" THEN Upper(value) ELSE value

RECURSIVE map_fields_loop(_, _, _)
\* the for loop of map_fields; raised is set when a transform raises
map_fields_loop(mapped_data, source_data, entries) ==
    IF entries = <<>> THEN [raised |-> FALSE, mapped_data |-> mapped_data]
    ELSE LET e == Head(entries) IN
         IF ~Has(source_data, e.src)
         THEN map_fields_loop(mapped_data, source_data, Tail(entries))
         ELSE IF ~e.struct
         THEN map_fields_loop(DictSet(mapped_data, e.field, source_data[e.src]),
                              source_data, Tail(entries))
         ELSE IF e.field = Absent
         THEN \* a target dict without "field": nothing is written
              map_fields_loop(mapped_data, source_data, Tail(entries))
         ELSE IF e.transform = "raises"
         THEN [raised |-> TRUE, mapped_data |-> mapped_data]
         ELSE map_fields_loop(
                  DictSet(mapped_data, e.field, ApplyTransform(e.transform, source_data[e.src])),
                  source_data, Tail(entries))

\* mutant: what was mapped before the transform raised is returned
map_fields_partial(source_data, field_mapping) ==
    map_fields_loop(<<>>, source_data, field_mapping).mapped_data

\* map_fields: `except Exception: return {}`
map_fields(source_data, field_mapping) ==
    LET out == map_fields_loop(<<>>, source_data, field_mapping)
    IN IF out.raised THEN <<>> ELSE out.mapped_data

----------------------------------------------------------------------------
(* BaseALMAdapter.retry_operation *)

\* what one call of the wrapped operation does: it returns, or it raises a
\* network/timeout error, a validation error, an authentication error
OperationOutcomes == {"ok", "transient", "validation", "authentication"}

RECURSIVE Pow2(_)
\* 2 ** attempt
Pow2(n) == IF n = 0 THEN 1 ELSE 2 * Pow2(n - 1)

\* the value attempt number attempt returned, the exception it raised
ValueOf(attempt) == [kind |-> "returned", attempt |-> attempt]

ExceptionOf(class, attempt) == [kind |-> "raised", class |-> class, attempt |-> attempt]

\* falling off the end of the function
ReturnedNone == [kind |-> "returned", attempt |-> -1]

NoResult == [kind |-> "none", attempt |-> -1]

\* mutant: the test for the last attempt is off by one
is_last_attempt_off_by_one(attempt, max_retries) == attempt = max_retries

\* `if attempt == max_retries - 1:`
is_last_attempt(attempt, max_retries) == attempt = max_retries - 1

\* mutant: only network/timeout errors are retried
retries_transient_only(class) == class = "transient"

\* `except Exception as e:` any exception is handled by the retry
retries(class) == TRUE

\* mutant: the same wait after every failure
wait_time_fixed(delay, attempt) == delay

\* `delay * (2 ** attempt)`
wait_time(delay, attempt) == delay * Pow2(attempt)

\* mutant: the body of the loop runs once whatever max_retries is
retry_enter_at_least_once(max_retries, delay) ==
    [op |-> "retry_operation", max_retries |-> max_retries, delay |-> delay,
     pc |-> "attempt", attempt |-> 0, outcomes |-> <<>>, waits |-> <<>>,
     result |-> NoResult]

\* retry_operation entered: `for attempt in range(max_retries):`
retry_enter(max_retries, delay) ==
    [op |-> "retry_operation", max_retries |-> max_retries, delay |-> delay,
     pc |-> IF max_retries > 0 THEN "attempt" ELSE "done",
     attempt |-> 0, outcomes |-> <<>>, waits |-> <<>>,
     result |-> IF max_retries > 0 THEN NoResult ELSE ReturnedNone]

\* `return await operation()` and the except clause up to the sleep
retry_attempt(st, outcome) ==
    LET tried == [st EXCEPT !.outcomes = Append(@, outcome)] IN
    IF outcome = "ok"
    THEN [tried EXCEPT !.pc = "done", !.result = ValueOf(st.attempt)]
    ELSE IF ~retries(outcome) \/ is_last_attempt(st.attempt, st.max_retries)
    THEN [tried EXCEPT !.pc = "done", !.result = ExceptionOf(outcome, st.attempt)]
    ELSE [tried EXCEPT !.pc = "sleep"]

\* `await asyncio.sleep(wait_time)` and the next iteration of the for loop
retry_sleep(st) ==
    LET slept == [st EXCEPT !.waits = Append(@, wait_time(st.delay, st.attempt)),
                            !.attempt = @ + 1]
    IN IF slept.attempt < st.max_retries
       THEN [slept EXCEPT !.pc = "attempt"]
       ELSE [slept EXCEPT !.pc = "done", !.result = ReturnedNone]

----------------------------------------------------------------------------
(* Per-record results and the state a sync run threads through its loop     *)

RecResult(success, created, id, error) ==
    [success |-> success, created |-> created, id |-> id, error |-> error, raised |-> FALSE]

Raised(error) ==
    [success |-> FALSE, created |-> FALSE, id |-> 0, error |-> error, raised |-> TRUE]

Call(idx, op, id, doc, ok) == [idx |-> idx, op |-> op, id |-> id, doc |-> doc, ok |-> ok]

Step(items, calls, res) == [remote |-> items, calls |-> calls, res |-> res]

Exists(items, id) == id \in 1..Len(items)

----------------------------------------------------------------------------
(* JiraAdapter *)

create_jira_issue(items, calls, idx, project_key, req, cfg, fail) ==
    LET entries == MappedEntries(req, cfg.field_mapping)
        issue_data == DictUpdate(
            << Write("set", "project", project_key),
               Write("set", "summary", DefaultTitle(req)),
               Write("set", "description", Get(req, "text", "")),
               Write("set", "issuetype", Get(cfg, "issue_type", "Story")) >>,
            [i \in 1..Len(entries) |-> Write("set", entries[i].tgt, req[entries[i].src])])
        new_id == Len(items) + 1
    IN IF HasDictTarget(entries)
       THEN \* issue_data[jira_field] with a dict as key: TypeError (unhashable)
            Step(items, calls, Raised("TypeError"))
       ELSE
       CASE fail = "ok" ->
              Step(Append(items, ApplyWrites(EmptyItem, issue_data)),
                   Append(calls, Call(idx, "create", new_id, issue_data, TRUE)),
                   RecResult(TRUE, TRUE, new_id, None))
         [] fail = "error" ->
              \* except JIRAError
              Step(items, Append(calls, Call(idx, "create", 0, issue_data, FALSE)),
                   RecResult(FALSE, FALSE, 0, "JIRAError"))
         [] OTHER ->
              \* any other exception leaves the method
              Step(items, Append(calls, Call(idx, "create", 0, issue_data, FALSE)),
                   Raised("Exception"))

RECURSIVE jira_custom_diff(_, _, _, _)
\* the `for req_field, jira_field in field_mapping.items()` loop of the update path
jira_custom_diff(update_data, issue, req, entries) ==
    IF entries = <<>> THEN update_data
    ELSE LET e == Head(entries)
             current_value == IF issue[e.tgt] = Absent THEN None ELSE issue[e.tgt]
             new_value == req[e.src]
         IN jira_custom_diff(
                IF current_value # new_value THEN DictSet(update_data, e.tgt, new_value)
                ELSE update_data,
                issue, req, Tail(entries))

update_jira_issue(items, calls, idx, issue_key, req, cfg, fail) ==
    IF ~Exists(items, issue_key)
    THEN \* jira_client.issue raises JIRAError (404)
         Step(items, Append(calls, Call(idx, "fetch", issue_key, <<>>, FALSE)),
              RecResult(FALSE, FALSE, 0, "JIRAError"))
    ELSE
    LET issue == items[issue_key]
        fetched == Append(calls, Call(idx, "fetch", issue_key, <<>>, TRUE))
        new_summary == DefaultTitle(req)
        d1 == IF issue["summary"] # new_summary
              THEN DictSet(<<>>, "summary", new_summary) ELSE <<>>
        new_description == Get(req, "text", "")
        d2 == IF issue["description"] # new_description
              THEN DictSet(d1, "description", new_description) ELSE d1
        update_data == jira_custom_diff(d2, issue, req, MappedEntries(req, cfg.field_mapping))
    IN IF HasDictTarget(MappedEntries(req, cfg.field_mapping))
       THEN \* getattr(issue.fields, jira_field, None) with a dict as name: TypeError
            Step(items, fetched, Raised("TypeError"))
       ELSE
       IF update_data = <<>>
       THEN Step(items, fetched, RecResult(TRUE, FALSE, issue_key, None))
       ELSE CASE fail = "ok" ->
                   Step([items EXCEPT ![issue_key] = ApplyWrites(issue, update_data)],
                        Append(fetched, Call(idx, "update", issue_key, update_data, TRUE)),
                        RecResult(TRUE, FALSE, issue_key, None))
              [] fail = "error" ->
                   Step(items, Append(fetched, Call(idx, "update", issue_key, update_data, FALSE)),
                        RecResult(FALSE, FALSE, 0, "JIRAError"))
              [] OTHER ->
                   Step(items, Append(fetched, Call(idx, "update", issue_key, update_data, FALSE)),
                        Raised("Exception"))

\* mutant: the reference test inverted
sync_requirement_to_issue_inverted(items, calls, idx, req, project_key, cfg, fail) ==
    LET jira_issue_key == req.ref["jira_issue_key"]
        s == IF jira_issue_key = 0
             THEN update_jira_issue(items, calls, idx, jira_issue_key, req, cfg, fail)
             ELSE create_jira_issue(items, calls, idx, project_key, req, cfg, fail)
    IN IF s.res.raised
       THEN Step(s.remote, s.calls, RecResult(FALSE, FALSE, 0, s.res.error))
       ELSE s

\* `if jira_issue_key:` and the `except Exception` around both paths
sync_requirement_to_issue(items, calls, idx, req, project_key, cfg, fail) ==
    LET jira_issue_key == req.ref["jira_issue_key"]
        s == IF jira_issue_key # 0
             THEN update_jira_issue(items, calls, idx, jira_issue_key, req, cfg, fail)
             ELSE create_jira_issue(items, calls, idx, project_key, req, cfg, fail)
    IN IF s.res.raised
       THEN Step(s.remote, s.calls, RecResult(FALSE, FALSE, 0, s.res.error))
       ELSE s

----------------------------------------------------------------------------
(* AzureDevOpsAdapter *)

create_work_item(items, calls, idx, project, req, cfg, fail) ==
    LET entries == MappedEntries(req, cfg.field_mapping)
        patch_ops ==
            << Write("add", "System.Title", DefaultTitle(req)),
               Write("add", "System.Description", Get(req, "text", "")) >>
            \o [i \in 1..Len(entries) |-> Write("add", entries[i].tgt, req[entries[i].src])]
        new_id == Len(items) + 1
    IN IF HasDictTarget(entries)
       THEN \* f"/fields/{ado_field}" formats the dict: the server knows no such field
            Step(items, Append(calls, Call(idx, "create", 0, patch_ops, FALSE)),
                 RecResult(FALSE, FALSE, 0, "ClientException"))
       ELSE
       CASE fail = "ok" ->
              Step(Append(items, ApplyWrites(EmptyItem, patch_ops)),
                   Append(calls, Call(idx, "create", new_id, patch_ops, TRUE)),
                   RecResult(TRUE, TRUE, new_id, None))
         [] fail = "error" ->
              \* except ClientException
              Step(items, Append(calls, Call(idx, "create", 0, patch_ops, FALSE)),
                   RecResult(FALSE, FALSE, 0, "ClientException"))
         [] OTHER ->
              Step(items, Append(calls, Call(idx, "create", 0, patch_ops, FALSE)),
                   Raised("Exception"))

RECURSIVE ado_custom_diff(_, _, _, _)
\* the `for req_field, ado_field in field_mapping.items()` loop of the update path
ado_custom_diff(patch_ops, work_item, req, entries) ==
    IF entries = <<>> THEN patch_ops
    ELSE LET e == Head(entries)
             current_value == IF work_item[e.tgt] = Absent THEN None ELSE work_item[e.tgt]
             new_value == req[e.src]
         IN ado_custom_diff(
                IF current_value # new_value
                THEN Append(patch_ops, Write("replace", e.tgt, new_value))
                ELSE patch_ops,
                work_item, req, Tail(entries))

update_work_item(items, calls, idx, work_item_id, req, cfg, fail) ==
    IF ~Exists(items, work_item_id)
    THEN \* wit_client.get_work_item raises ClientException
         Step(items, Append(calls, Call(idx, "fetch", work_item_id, <<>>, FALSE)),
              RecResult(FALSE, FALSE, 0, "ClientException"))
    ELSE
    LET work_item == items[work_item_id]
        fetched == Append(calls, Call(idx, "fetch", work_item_id, <<>>, TRUE))
        new_title == DefaultTitle(req)
        current_title == Get(work_item, "System.Title", "")
        p1 == IF current_title # new_title
              THEN << Write("replace", "System.Title", new_title) >> ELSE <<>>
        new_description == Get(req, "text", "")
        current_description == Get(work_item, "System.Description", "")
        p2 == IF current_description # new_description
              THEN Append(p1, Write("replace", "System.Description", new_description)) ELSE p1
        patch_ops == ado_custom_diff(p2, work_item, req, MappedEntries(req, cfg.field_mapping))
    IN IF HasDictTarget(MappedEntries(req, cfg.field_mapping))
       THEN \* work_item.fields.get(ado_field) with a dict as key: TypeError (unhashable)
            Step(items, fetched, Raised("TypeError"))
       ELSE
       IF patch_ops = <<>>
       THEN Step(items, fetched, RecResult(TRUE, FALSE, work_item_id, None))
       ELSE CASE fail = "ok" ->
                   Step([items EXCEPT ![work_item_id] = ApplyWrites(work_item, patch_ops)],
                        Append(fetched, Call(idx, "update", work_item_id, patch_ops, TRUE)),
                        RecResult(TRUE, FALSE, work_item_id, None))
              [] fail = "error" ->
                   Step(items, Append(fetched, Call(idx, "update", work_item_id, patch_ops, FALSE)),
                        RecResult(FALSE, FALSE, 0, "ClientException"))
              [] OTHER ->
                   Step(items, Append(fetched, Call(idx, "update", work_item_id, patch_ops, FALSE)),
                        Raised("Exception"))

\* `if ado_work_item_id:` and the `except Exception` around both paths
ado_sync_requirement_to_work_item(items, calls, idx, req, project, cfg, fail) ==
    LET ado_work_item_id == req.ref["ado_work_item_id"]
        s == IF ado_work_item_id # 0
             THEN update_work_item(items, calls, idx, ado_work_item_id, req, cfg, fail)
             ELSE create_work_item(items, calls, idx, project, req, cfg, fail)
    IN IF s.res.raised
       THEN Step(s.remote, s.calls, RecResult(FALSE, FALSE, 0, s.res.error))
       ELSE s

----------------------------------------------------------------------------
(* PolarionAdapter *)

\* the SOAP body carries title and description only; field_mapping is not read
create_polarion_work_item(items, calls, idx, project, req, cfg, fail) ==
    LET soap_body == << Write("set", "title", DefaultTitle(req)),
                        Write("set", "description", Get(req, "text", "")) >>
        new_id == Len(items) + 1
    IN CASE fail = "ok" ->
              Step(Append(items, ApplyWrites(EmptyItem, soap_body)),
                   Append(calls, Call(idx, "create", new_id, soap_body, TRUE)),
                   RecResult(TRUE, TRUE, new_id, None))
         [] fail = "error" ->
              \* status_code != 200, or no createWorkItemReturn element
              Step(items, Append(calls, Call(idx, "create", 0, soap_body, FALSE)),
                   RecResult(FALSE, FALSE, 0, "Failed to create work item"))
         [] OTHER ->
              \* except Exception
              Step(items, Append(calls, Call(idx, "create", 0, soap_body, FALSE)),
                   RecResult(FALSE, FALSE, 0, "Exception"))

\* no fetch and no diff: the update request is always posted
update_polarion_work_item(items, calls, idx, work_item_id, req, cfg, fail) ==
    LET soap_body == << Write("set", "title", DefaultTitle(req)),
                        Write("set", "description", Get(req, "text", "")) >>
    IN CASE fail = "ok" /\ Exists(items, work_item_id) ->
              Step([items EXCEPT ![work_item_id] = ApplyWrites(items[work_item_id], soap_body)],
                   Append(calls, Call(idx, "update", work_item_id, soap_body, TRUE)),
                   RecResult(TRUE, FALSE, work_item_id, None))
         [] fail = "exception" ->
              Step(items, Append(calls, Call(idx, "update", work_item_id, soap_body, FALSE)),
                   RecResult(FALSE, FALSE, 0, "Exception"))
         [] OTHER ->
              \* status_code != 200 (a fault, also for an unknown work item)
              Step(items, Append(calls, Call(idx, "update", work_item_id, soap_body, FALSE)),
                   RecResult(FALSE, FALSE, 0, "Failed to update work item"))

\* mutant: a reference for any backend sends the requirement to the update path
polarion_sync_requirement_any_reference(items, calls, idx, req, project, cfg, fail) ==
    LET polarion_work_item_id == req.ref["polarion_work_item_id"]
        s == IF \E rk \in DOMAIN req.ref : req.ref[rk] # 0
             THEN update_polarion_work_item(items, calls, idx, polarion_work_item_id, req, cfg, fail)
             ELSE create_polarion_work_item(items, calls, idx, project, req, cfg, fail)
    IN IF s.res.raised
       THEN Step(s.remote, s.calls, RecResult(FALSE, FALSE, 0, s.res.error))
       ELSE s

\* `if polarion_work_item_id:` and the `except Exception` around both paths
polarion_sync_requirement_to_work_item(items, calls, idx, req, project, cfg, fail) ==
    LET polarion_work_item_id == req.ref["polarion_work_item_id"]
        s == IF polarion_work_item_id # 0
             THEN update_polarion_work_item(items, calls, idx, polarion_work_item_id, req, cfg, fail)
             ELSE create_polarion_work_item(items, calls, idx, project, req, cfg, fail)
    IN IF s.res.raised
       THEN Step(s.remote, s.calls, RecResult(FALSE, FALSE, 0, s.res.error))
       ELSE s

----------------------------------------------------------------------------
(* initialize() of the three adapters *)

\* required_fields of each adapter
RequiredFields(k) ==
    CASE k = "jira" -> <<"server", "username", "api_token">>
      [] k = "azure_devops" -> <<"organization_url", "personal_access_token">>
      [] k = "polarion" -> <<"server_url", "username", "password">>

\* mutant: only the presence of the key is tested
validate_config_presence_only(config, required_fields) ==
    \A i \in 1..Len(required_fields) : config[required_fields[i]] # Absent

\* `field not in self.config or not self.config[field]` for each required field
validate_config(config, required_fields) ==
    \A i \in 1..Len(required_fields) :
        ~(config[required_fields[i]] = Absent \/ config[required_fields[i]] = "")

\* what initialize() leaves and hands back; steps are the things it did, in order
InitResult(returned, raised, initialized, has_client, steps) ==
    [returned |-> returned, raised |-> raised, initialized |-> initialized,
     has_client |-> has_client, steps |-> steps]

\* the statements inside the `try:` of initialize(): validate_config, the
\* client, for Polarion the login, then test_connection, which turns every
\* failure of its remote call into an error response
initialize_body(k, config, build, login, test) ==
    IF ~validate_config(config, RequiredFields(k))
    THEN InitResult(FALSE, FALSE, FALSE, FALSE, <<>>)
    ELSE IF build # "ok"
    THEN \* the client constructor raised
         InitResult(FALSE, TRUE, FALSE, FALSE, <<"client">>)
    ELSE IF k = "polarion" /\ login # "ok"
    THEN \* _authenticate returns False: no session_id
         InitResult(FALSE, FALSE, FALSE, FALSE, <<"client", "login">>)
    ELSE LET steps == IF k = "polarion"
                      THEN <<"client", "login", "test_connection">>
                      ELSE <<"client", "test_connection">>
         IN IF test # "ok"
            THEN InitResult(FALSE, FALSE, FALSE, TRUE, steps)
            ELSE InitResult(TRUE, FALSE, TRUE, TRUE, steps)

\* initialize(): `except Exception: return False`
initialize(k, config, build, login, test) ==
    LET out == initialize_body(k, config, build, login, test)
    IN IF out.raised THEN [out EXCEPT !.raised = FALSE, !.returned = FALSE] ELSE out

----------------------------------------------------------------------------
(* The contract operations of the three adapters *)

ContractOps ==
    {"create_item", "update_item", "get_item", "delete_item", "query_items",
     "get_projects", "get_item_types", "get_fields", "get_workflows",
     "create_link", "get_links", "upload_attachment", "get_attachments"}

\* what an operation hands back: an envelope, or an exception that leaves it
Returned(success, error, called) ==
    [raised |-> FALSE, success |-> success, error |-> error, called |-> called]

Escaped(called) ==
    [raised |-> TRUE, success |-> FALSE, error |-> None, called |-> called]

\* the item ids a caller passes: one int() accepts, one it rejects
ItemIds == {"1", "abc"}

\* int(item_id)
IntParses(item_id) == item_id = "1"

\* JiraAdapter: every operation checks jira_client, two check the project key,
\* all call the client inside `try: ... except JIRAError`
jira_contract_op(op, has_client, project, item_id, fail) ==
    IF ~has_client THEN Returned(FALSE, "Jira client not initialized", FALSE)
    ELSE IF op \in {"create_item", "get_item_types"} /\ project_missing(project)
    THEN Returned(FALSE, "Project key not specified", FALSE)
    ELSE CASE fail = "ok" -> Returned(TRUE, None, TRUE)
           [] fail = "error" -> Returned(FALSE, "JIRAError", TRUE)
           [] OTHER -> Escaped(TRUE)

\* the operations of AzureDevOpsAdapter that evaluate int(item_id) / int(source_id)
AdoParsesId ==
    {"update_item", "get_item", "delete_item", "create_link", "get_links",
     "upload_attachment", "get_attachments"}

\* AzureDevOpsAdapter: client check, project check in six operations, int() of
\* the id, the client call, all inside `try: ... except ClientException`
ado_contract_op(op, has_client, project, item_id, fail) ==
    IF ~has_client THEN Returned(FALSE, "Azure DevOps client not initialized", FALSE)
    ELSE IF /\ op \in {"create_item", "query_items", "get_item_types", "get_fields",
                       "get_workflows", "upload_attachment"}
            /\ project_missing(project)
    THEN Returned(FALSE, "Project not specified", FALSE)
    ELSE IF op = "upload_attachment" /\ fail # "ok"
    THEN \* create_attachment is called before int(item_id) is evaluated
         IF fail = "error" THEN Returned(FALSE, "ClientException", TRUE) ELSE Escaped(TRUE)
    ELSE IF op \in AdoParsesId /\ ~IntParses(item_id)
    THEN \* ValueError is not a ClientException
         Escaped(op = "upload_attachment")
    ELSE CASE fail = "ok" -> Returned(TRUE, None, TRUE)
           [] fail = "error" -> Returned(FALSE, "ClientException", TRUE)
           [] OTHER -> Escaped(TRUE)

\* the operations of PolarionAdapter that return a fixed answer
PolarionStubs ==
    {"get_item_types", "get_fields", "get_workflows", "create_link", "get_links",
     "upload_attachment", "get_attachments"}

\* PolarionAdapter: the stubs answer without looking at the client; the others
\* check http_client and session_id, two check the project, query_items posts
\* nothing; all inside `try: ... except Exception`
polarion_contract_op(op, has_client, project, item_id, fail) ==
    IF op \in PolarionStubs THEN Returned(TRUE, None, FALSE)
    ELSE IF ~has_client THEN Returned(FALSE, "Polarion client not initialized", FALSE)
    ELSE IF op \in {"create_item", "query_items"} /\ project_missing(project)
    THEN Returned(FALSE, "Project not specified", FALSE)
    ELSE IF op = "query_items" THEN Returned(TRUE, None, FALSE)
    ELSE CASE fail = "ok" -> Returned(TRUE, None, TRUE)
           [] fail = "error" -> Returned(FALSE, "Failed", TRUE)
           [] OTHER -> Returned(FALSE, "Exception", TRUE)

contract_op(k, op, has_client, project, item_id, fail) ==
    CASE k = "jira" -> jira_contract_op(op, has_client, project, item_id, fail)
      [] k = "azure_devops" -> ado_contract_op(op, has_client, project, item_id, fail)
      [] OTHER -> polarion_contract_op(op, has_client, project, item_id, fail)

\* the document create_item / update_item hands to the remote call, built from
\* mapped_data = map_fields(item_data, field_mapping): Jira's fields dict, the
\* JSON-Patch operations of Azure DevOps, the title and description Polarion
\* reads out of mapped_data
item_document(k, op, project, item_type, mapped_data) ==
    CASE k = "jira" /\ op = "create_item" ->
            DictUpdate(<< Write("set", "project", project),
                          Write("set", "issuetype", item_type) >>, mapped_data)
      [] k = "jira" /\ op # "create_item" -> mapped_data
      [] k = "azure_devops" ->
            [i \in 1..Len(mapped_data) |->
                Write(IF op = "create_item" THEN "add" ELSE "replace",
                      mapped_data[i].path, mapped_data[i].value)]
      [] OTHER ->
            LET text == IF "text" \in Paths(mapped_data)
                        THEN ValueAt(mapped_data, "text") ELSE ""
            IN << Write("set", "title",
                        IF "title" \in Paths(mapped_data)
                        THEN ValueAt(mapped_data, "title") ELSE Trunc100(text)),
                  Write("set", "description", text) >>

----------------------------------------------------------------------------
(* sync_project, the same loop in the three adapters *)

SyncRequirement(k, items, calls, idx, req, project, cfg, fail) ==
    CASE k = "jira" -> sync_requirement_to_issue(items, calls, idx, req, project, cfg, fail)
      [] k = "azure_devops" -> ado_sync_requirement_to_work_item(items, calls, idx, req, project, cfg, fail)
      [] k = "polarion" -> polarion_sync_requirement_to_work_item(items, calls, idx, req, project, cfg, fail)

sync_results0 == [synced_items |-> 0, created_items |-> 0, updated_items |-> 0, errors |-> <<>>]

\* mutant: a created item is counted as updated too
Tally_created_also_updated(sync_results, req, result) ==
    IF result.success
    THEN [sync_results EXCEPT
            !.synced_items = @ + 1,
            !.created_items = IF result.created THEN @ + 1 ELSE @,
            !.updated_items = @ + 1]
    ELSE [sync_results EXCEPT
            !.errors = Append(@, [req_id |-> req.req_id, error |-> result.error])]

\* the body of `for requirement in requirements:` for one requirement
Tally(sync_results, req, result) ==
    IF result.success
    THEN [sync_results EXCEPT
            !.synced_items = @ + 1,
            !.created_items = IF result.created THEN @ + 1 ELSE @,
            !.updated_items = IF result.created THEN @ ELSE @ + 1]
    ELSE [sync_results EXCEPT
            !.errors = Append(@, [req_id |-> req.req_id, error |-> result.error])]

RECURSIVE SyncLoopAborting(_, _, _, _, _, _, _, _)
\* mutant: the loop stops at the first requirement that fails
SyncLoopAborting(k, items, calls, sync_results, requirements, project, cfg, fails) ==
    LET idx == Len(fails) - Len(requirements) + 1 IN
    IF requirements = <<>>
    THEN [remote |-> items, calls |-> calls, sync_results |-> sync_results]
    ELSE LET s == SyncRequirement(k, items, calls, idx, Head(requirements), project, cfg, fails[idx])
         IN IF ~s.res.success
            THEN [remote |-> s.remote, calls |-> s.calls,
                  sync_results |-> Tally(sync_results, Head(requirements), s.res)]
            ELSE SyncLoopAborting(k, s.remote, s.calls,
                                  Tally(sync_results, Head(requirements), s.res),
                                  Tail(requirements), project, cfg, fails)

RECURSIVE SyncLoopReversed(_, _, _, _, _, _, _, _)
\* mutant: the requirements are taken from the end of the list
SyncLoopReversed(k, items, calls, sync_results, requirements, project, cfg, fails) ==
    LET idx == Len(fails) - Len(requirements) + 1 IN
    IF requirements = <<>>
    THEN [remote |-> items, calls |-> calls, sync_results |-> sync_results]
    ELSE LET rest == SyncLoopReversed(k, items, calls, sync_results, Tail(requirements),
                                      project, cfg, fails)
             s == SyncRequirement(k, rest.remote, rest.calls, idx, Head(requirements),
                                  project, cfg, fails[idx])
         IN [remote |-> s.remote, calls |-> s.calls,
             sync_results |-> Tally(rest.sync_results, Head(requirements), s.res)]

RECURSIVE SyncLoop(_, _, _, _, _, _, _, _)
\* `for requirement in requirements:` with its try/except per requirement
SyncLoop(k, items, calls, sync_results, requirements, project, cfg, fails) ==
    LET idx == Len(fails) - Len(requirements) + 1 IN
    IF requirements = <<>>
    THEN [remote |-> items, calls |-> calls, sync_results |-> sync_results]
    ELSE LET s == SyncRequirement(k, items, calls, idx, Head(requirements), project, cfg, fails[idx])
         IN SyncLoop(k, s.remote, s.calls, Tally(sync_results, Head(requirements), s.res),
                     Tail(requirements), project, cfg, fails)

ErrorResponse(error) ==
    [success |-> FALSE, error |-> error, sync_results |-> sync_results0, raised |-> FALSE]

SuccessResponse(sync_results) ==
    [success |-> TRUE, error |-> None, sync_results |-> sync_results, raised |-> FALSE]

\* an exception that leaves sync_project: the caller gets no dict
RaisedResponse(error) ==
    [success |-> FALSE, error |-> error, sync_results |-> sync_results0, raised |-> TRUE]

\* the project lookup that precedes the loop (Jira and Azure DevOps only)
LooksUpProject(k) == k \in {"jira", "azure_devops"}

\* the statements inside the outer `try:` of sync_project
sync_project_body(k, has_client, items, cfg, fails, project_fail) ==
    LET project == cfg[ProjectKey(k)]
        lookup == Call(0, "project", 0, <<>>, project_fail = "ok")
    IN
    IF ~has_client
    THEN [remote |-> items, calls |-> <<>>, response |-> ErrorResponse("client not initialized")]
    ELSE IF project_missing(project)
    THEN [remote |-> items, calls |-> <<>>, response |-> ErrorResponse("project not specified")]
    ELSE IF LooksUpProject(k) /\ project_fail = "error"
    THEN [remote |-> items, calls |-> <<lookup>>, response |-> ErrorResponse("project not found")]
    ELSE IF LooksUpProject(k) /\ project_fail = "exception"
    THEN \* not the library's exception: it leaves the inner try of the lookup
         [remote |-> items, calls |-> <<lookup>>, response |-> RaisedResponse("Exception")]
    ELSE LET run == SyncLoop(k, items, IF LooksUpProject(k) THEN <<lookup>> ELSE <<>>,
                             sync_results0, cfg.requirements, project, cfg, fails)
         IN [remote |-> run.remote, calls |-> run.calls,
             response |-> SuccessResponse(run.sync_results)]

\* sync_project without its outer handler
sync_project_unguarded(k, has_client, items, cfg, fails, project_fail) ==
    sync_project_body(k, has_client, items, cfg, fails, project_fail)

\* sync_project(project_id, sync_config): [remote, calls, response]; the outer
\* `except Exception` answers "Project sync failed"
\* the outer `except Exception` of sync_project
sync_project_except(out) ==
    IF out.response.raised
    THEN [out EXCEPT !.response = ErrorResponse("Project sync failed")]
    ELSE out

\* sync_project(project_id, sync_config): [remote, calls, response]
sync_project(k, has_client, items, cfg, fails, project_fail) ==
    sync_project_except(sync_project_body(k, has_client, items, cfg, fails, project_fail))

\* mutant: the id of the item created for the requirement is stored as its one
\* external reference, in place of the references it held
requirement_after_sync_single_reference(k, req, calls, idx) ==
    LET created == {c \in 1..Len(calls) :
                       calls[c].idx = idx /\ calls[c].op = "create" /\ calls[c].ok}
    IN IF created = {} THEN req
       ELSE [req EXCEPT !.ref = [rk \in DOMAIN req.ref |->
                                    IF rk = RefKey(k)
                                    THEN calls[CHOOSE c \in created : TRUE].id
                                    ELSE 0]]

\* the requirement dict at position idx after sync_project: the adapters read
\* it with .get(...) and `in` and assign nothing to it; the id a create call
\* returned stays in the result dict of the create path
requirement_after_sync(k, req, calls, idx) == req

----------------------------------------------------------------------------
(* ALMFactory *)

\* alm_type.lower()
Lower(alm_type) ==
    CASE alm_type = "JIRA" -> "jira"
      [] alm_type = "Polarion" -> "polarion"
      [] OTHER -> alm_type

\* the alm_type strings a caller passes
AlmTypes == BackendSet \cup {"JIRA", "Polarion", "trello"}

\* self.adapters holds no entry for a backend, or the adapter object
Unregistered == [registered |-> FALSE, initialized |-> FALSE, has_client |-> FALSE]

Adapter(initialized, has_client) ==
    [registered |-> TRUE, initialized |-> initialized, has_client |-> has_client]

\* what an adapter's initialize() does: it returns True; validate_config fails
\* and it returns False before a client is built; the client is built and
\* login or test_connection fails, and it returns False
InitOutcomes == {"ok", "bad_config", "connect_failed"}

\* adapter.initialize(): the value returned and the adapter it leaves
adapter_initialize(outcome) ==
    CASE outcome = "ok" -> [returned |-> TRUE, adapter |-> Adapter(TRUE, TRUE)]
      [] outcome = "bad_config" -> [returned |-> FALSE, adapter |-> Adapter(FALSE, FALSE)]
      [] OTHER -> [returned |-> FALSE, adapter |-> Adapter(FALSE, TRUE)]

\* mutant: an adapter whose initialize() returned False is not stored
register_if_initialized(adps, b, outcome) ==
    IF adapter_initialize(outcome).returned
    THEN [adps EXCEPT ![b] = adapter_initialize(outcome).adapter]
    ELSE adps

\* `await adapter.initialize(); self.adapters[b] = adapter`: the returned value is dropped
register_adapter(adps, b, outcome) ==
    [adps EXCEPT ![b] = adapter_initialize(outcome).adapter]

RECURSIVE initialize_adapters_aborting(_, _, _, _)
\* mutant: the first backend whose initialize() fails ends the method
initialize_adapters_aborting(adps, confs, outcome, i) ==
    IF i > Len(Backends) THEN adps
    ELSE IF confs[Backends[i]] /\ ~adapter_initialize(outcome[Backends[i]]).returned
    THEN adps
    ELSE initialize_adapters_aborting(
            IF confs[Backends[i]] THEN register_adapter(adps, Backends[i], outcome[Backends[i]])
            ELSE adps,
            confs, outcome, i + 1)

RECURSIVE initialize_adapters(_, _, _, _)
\* _initialize_adapters: jira, azure_devops, polarion, in this order
initialize_adapters(adps, confs, outcome, i) ==
    IF i > Len(Backends) THEN adps
    ELSE initialize_adapters(
            IF confs[Backends[i]] THEN register_adapter(adps, Backends[i], outcome[Backends[i]])
            ELSE adps,
            confs, outcome, i + 1)

\* self.adapters.get(alm_type.lower())
get_adapter(adps, alm_type) ==
    IF Lower(alm_type) \in BackendSet /\ adps[Lower(alm_type)].registered
    THEN adps[Lower(alm_type)]
    ELSE Unregistered

\* get_available_adapters: adapter.get_info() is a coroutine function, so
\* subscripting what it returns raises TypeError as soon as one adapter is stored
get_available_adapters(adps) ==
    IF \E b \in BackendSet : adps[b].registered
    THEN [raised |-> TRUE, names |-> {}]
    ELSE [raised |-> FALSE, names |-> {}]

PassThroughOps ==
    {"test_connection", "sync_project", "create_item", "update_item", "get_item", "query_items"}

Envelope(success, error) == [success |-> success, error |-> error]

\* the six pass-through operations of ALMFactory share one shape; how is what the
\* adapter method does once it is past its client check
pass_through(adps, op, alm_type, how) ==
    LET adapter == get_adapter(adps, alm_type) IN
    IF ~adapter.registered
    THEN [invoked |-> FALSE, raised |-> FALSE,
          response |-> Envelope(FALSE, "Adapter not available")]
    ELSE IF ~adapter.has_client
    THEN [invoked |-> TRUE, raised |-> FALSE,
          response |-> Envelope(FALSE, "client not initialized")]
    ELSE CASE how = "ok" ->
                [invoked |-> TRUE, raised |-> FALSE, response |-> Envelope(TRUE, None)]
           [] how = "error" ->
                [invoked |-> TRUE, raised |-> FALSE, response |-> Envelope(FALSE, "adapter error")]
           [] OTHER ->
                \* the adapter method raised: `except Exception` of the factory method
                [invoked |-> TRUE, raised |-> FALSE, response |-> Envelope(FALSE, "Exception")]

\* an adapter's health_check(): without a client it reports unhealthy, otherwise
\* it makes one remote call inside `try: ... except Exception`
adapter_health_check(adapter, how) ==
    IF ~adapter.has_client
    THEN [healthy |-> FALSE, raised |-> FALSE, called |-> FALSE]
    ELSE [healthy |-> how = "ok", raised |-> FALSE, called |-> TRUE]

\* health_status["adapters"] holds no entry for a backend, or its report
NoHealth == [reported |-> FALSE, healthy |-> FALSE]

HealthStatus0 ==
    [overall_healthy |-> TRUE, adapters |-> [b \in BackendSet |-> NoHealth], checked |-> <<>>]

\* one iteration of `for alm_type, adapter in self.adapters.items():`
health_step(health_status, b, h) ==
    [overall_healthy |-> health_status.overall_healthy /\ h.healthy /\ ~h.raised,
     adapters |-> [health_status.adapters EXCEPT
                      ![b] = [reported |-> TRUE, healthy |-> h.healthy /\ ~h.raised]],
     checked |-> Append(health_status.checked, b)]

RECURSIVE health_loop_last_wins(_, _, _, _)
\* mutant: overall_healthy is the report of the adapter checked last
health_loop_last_wins(health_status, adps, how, i) ==
    IF i > Len(Backends) THEN health_status
    ELSE IF ~adps[Backends[i]].registered
    THEN health_loop_last_wins(health_status, adps, how, i + 1)
    ELSE LET h == adapter_health_check(adps[Backends[i]], how[Backends[i]])
         IN health_loop_last_wins(
                [health_step(health_status, Backends[i], h) EXCEPT
                    !.overall_healthy = h.healthy],
                adps, how, i + 1)

RECURSIVE health_loop(_, _, _, _)
\* the loop of get_health_status over the registered adapters, in insertion order
health_loop(health_status, adps, how, i) ==
    IF i > Len(Backends) THEN health_status
    ELSE IF ~adps[Backends[i]].registered
    THEN health_loop(health_status, adps, how, i + 1)
    ELSE health_loop(
            health_step(health_status, Backends[i],
                        adapter_health_check(adps[Backends[i]], how[Backends[i]])),
            adps, how, i + 1)

\* get_health_status()
get_health_status(adps, how) == health_loop(HealthStatus0, adps, how, 1)

\* an adapter's cleanup(): the client is dropped inside `try: ... except
\* Exception`; when closing the Polarion http client raises, the handler logs it
adapter_cleanup(adapter, how) ==
    [raised |-> FALSE,
     adapter |-> IF how = "ok" THEN Adapter(FALSE, FALSE) ELSE Adapter(adapter.initialized, adapter.has_client)]

\* mutant: an adapter whose cleanup failed stays in the map
factory_cleanup_keeps_failed(adps, confs, how) ==
    [adapters |-> [b \in BackendSet |->
                      IF adps[b].registered /\ how[b] # "ok" THEN adps[b] ELSE Unregistered],
     configurations |-> [b \in BackendSet |-> FALSE],
     cleaned |-> {b \in BackendSet : adps[b].registered},
     raised |-> FALSE]

\* ALMFactory.cleanup(): cleanup of every adapter, each in its own try/except,
\* then adapters.clear() and configurations.clear()
factory_cleanup(adps, confs, how) ==
    [adapters |-> [b \in BackendSet |-> Unregistered],
     configurations |-> [b \in BackendSet |-> FALSE],
     cleaned |-> {b \in BackendSet :
                     adps[b].registered /\ ~adapter_cleanup(adps[b], how[b]).raised},
     raised |-> FALSE]

NoAdapters == [b \in BackendSet |-> Unregistered]
NoConfigurations == [b \in BackendSet |-> FALSE]
NotConfigured == [b \in BackendSet |-> "not_configured"]

----------------------------------------------------------------------------
(* The inputs of the sync specification *)

RecIds == {"R1", "R2"}

RefKeys == {RefKey(k) : k \in BackendSet}

NoRefs == [rk \in RefKeys |-> 0]

Requirement(req_id, title, text, std_tags) ==
    [req_id |-> req_id, title |-> title, text |-> text, std_tags |-> std_tags, ref |-> NoRefs]

\* the requirement dicts a caller holds: R1 is the record of the first-sync
\* scenario, R2 has no title, a long text and no std_tags
Catalogs ==
    { [r \in RecIds |-> IF r = "R1"
                        THEN Requirement("R1", "Validate login", "body", "ISO_13485")
                        ELSE Requirement("R2", Absent, "LONG-TEXT", Absent)] }

Entry(src, tgt) == [src |-> src, tgt |-> tgt]

\* sync_config["field_mapping"]: none, the scenario's title/text mapping, a custom field
Mappings(k) ==
    { <<>>,
      << Entry("title", TitleField(k)), Entry("text", DescField(k)) >>,
      << Entry("std_tags", TagField(k)) >> }

ConfigKeys == {ProjectKey(k) : k \in BackendSet}

\* the item type key each adapter reads
TypeKey(k) == IF k = "jira" THEN "issue_type" ELSE "work_item_type"

SyncConfig(k, project, item_type, field_mapping) ==
    [jira_project_key |-> IF k = "jira" THEN project ELSE Absent,
     ado_project |-> IF k = "azure_devops" THEN project ELSE Absent,
     polarion_project |-> IF k = "polarion" THEN project ELSE Absent,
     issue_type |-> IF k = "jira" THEN item_type ELSE Absent,
     work_item_type |-> IF k # "jira" THEN item_type ELSE Absent,
     field_mapping |-> field_mapping,
     requirements |-> <<>>]

Configs(k) ==
    { SyncConfig(k, "PROJ", "Story", m) : m \in Mappings(k) }
    \cup { SyncConfig(k, project, Absent, <<>>) : project \in {"PROJ", "", Absent} }

\* what a remote call does: it succeeds, the client library raises its own
\* exception (or the server answers with an error status), or something else is raised
FailKinds == {"ok", "error", "exception"}

\* sync_config["requirements"]: a list of different requirements
Batches ==
    { b \in UNION { [1..n -> RecIds] : n \in 0..MaxBatch } :
        \A i, j \in 1..Len(b) : b[i] = b[j] => i = j }

----------------------------------------------------------------------------
(* The sync specification: one adapter instance, its backend, one caller *)

\* PolarionAdapter.__init__: no client, no session token, nothing posted
NoSession ==
    [http_client |-> "none", session_id |-> 0, logins |-> 0, requests |-> <<>>,
     pc |-> "idle", todo |-> 0, inflight |-> 0, results |-> <<>>,
     closing |-> FALSE, answer |-> NoCall]

\* no backend holds a work item
NoParked == [b \in BackendSet |-> <<>>]

FactoryIdle ==
    /\ adapters = NoAdapters
    /\ configurations = NoConfigurations
    /\ initOutcome = NotConfigured
    /\ flast = NoCall

OthersIdle ==
    /\ mlast = NoCall
    /\ olast = NoCall

Init ==
    /\ kind \in BackendSet
    /\ sync_config \in Configs(kind)
    /\ client \in BOOLEAN
    /\ ~client => sync_config = SyncConfig(kind, "PROJ", "Story", <<>>)
    /\ records \in Catalogs
    /\ remote = <<>>
    /\ parked = NoParked
    /\ session = NoSession
    /\ last = NoCall
    /\ FactoryIdle
    /\ OthersIdle

\* the caller passes its requirement dicts, by reference, to sync_project;
\* fails[i] is what the create/update call of the i-th requirement does and
\* project_fail what the project lookup does (no requirement is reached then)
\* sync_config["requirements"]: the caller's requirement dicts, by reference
RequirementsOf(batch) == [i \in 1..Len(batch) |-> records[batch[i]]]

\* what a sync_project call that returned `out` leaves behind
SyncProjectApply(batch, requirements, fails, out) ==
    /\ Len(out.remote) <= MaxItems
    /\ remote' = out.remote
    /\ last' = [op |-> "sync_project", batch |-> batch, requirements |-> requirements,
                fails |-> fails, calls |-> out.calls, response |-> out.response]
    /\ records' = [r \in RecIds |->
                      IF \E i \in 1..Len(batch) : batch[i] = r
                      THEN requirement_after_sync(
                               kind, records[r], out.calls,
                               CHOOSE i \in 1..Len(batch) : batch[i] = r)
                      ELSE records[r]]
    /\ UNCHANGED <<kind, client, sync_config, parked, session>>
    /\ UNCHANGED <<adapters, configurations, initOutcome, flast, mlast, olast>>

SyncProject(batch, fails, project_fail) ==
    /\ project_fail # "ok" => LooksUpProject(kind) /\ \A i \in 1..Len(batch) : fails[i] = "ok"
    /\ SyncProjectApply(batch, RequirementsOf(batch), fails,
            sync_project(kind, client, remote,
                         [sync_config EXCEPT !.requirements = RequirementsOf(batch)],
                         fails, project_fail))

\* the ids the last sync_project created for requirement r
CreatedFor(r) ==
    IF last.op # "sync_project" THEN {}
    ELSE {last.calls[c].id : c \in {c \in 1..Len(last.calls) :
              /\ last.calls[c].op = "create"
              /\ last.calls[c].ok
              /\ last.batch[last.calls[c].idx] = r}}

\* the caller stores the id of the item just created for a requirement in the
\* requirement dict, under the adapter's key
Link(r, id) ==
    /\ id \in CreatedFor(r)
    /\ records[r].ref[RefKey(kind)] # id
    /\ records' = [records EXCEPT ![r].ref[RefKey(kind)] = id]
    /\ UNCHANGED <<kind, client, sync_config, remote, last, parked, session>>
    /\ UNCHANGED <<adapters, configurations, initOutcome, flast, mlast, olast>>

Next ==
    \/ \E batch \in Batches : \E fails \in [1..Len(batch) -> FailKinds] :
          \E project_fail \in FailKinds : SyncProject(batch, fails, project_fail)
    \/ \E r \in RecIds : \E id \in 1..MaxItems : Link(r, id)

Spec == Init /\ [][Next]_vars

----------------------------------------------------------------------------
(* Vocabulary of the sync claims *)

IsSync == last.op = "sync_project"

\* the run got past the client check, the project key check and the project lookup
Processed == IsSync /\ last.response.success

Positions == IF IsSync THEN 1..Len(last.batch) ELSE {}

\* the requirement at position i was passed without a reference for this adapter
Unlinked(i) == last.requirements[i].ref[RefKey(kind)] = 0

CallsOf(i, op) ==
    {c \in 1..Len(last.calls) : last.calls[c].idx = i /\ last.calls[c].op = op}

FailedPositions ==
    {i \in Positions : \E c \in 1..Len(last.calls) : last.calls[c].idx = i /\ ~last.calls[c].ok}

Results(synced, created, updated, errors) ==
    [synced_items |-> synced, created_items |-> created, updated_items |-> updated,
     errors |-> errors]

\* the fields a sync of req writes when it sends everything it maps
FullPayload(k, req, cfg) ==
    LET entries == IF k = "polarion" THEN <<>> ELSE MappedEntries(req, cfg.field_mapping)
    IN DictUpdate(<< Write("set", TitleField(k), DefaultTitle(req)),
                     Write("set", DescField(k), Get(req, "text", "")) >>,
                  [i \in 1..Len(entries) |-> Write("set", entries[i].tgt, req[entries[i].src])])

\* req is linked to an item that already holds every value a sync of req writes
InSyncWith(items, k, req, cfg) ==
    LET id == req.ref[RefKey(k)] IN
    /\ id \in 1..Len(items)
    /\ \A f \in Paths(FullPayload(k, req, cfg)) :
          items[id][f] = ValueAt(FullPayload(k, req, cfg), f)

\* this step is a sync_project call (a call that changes nothing is a stuttering step)
SyncStep == last'.op = "sync_project" /\ <<last, remote>> # <<last', remote'>>

----------------------------------------------------------------------------
(* C1 *)

\* C1 (as claimed): a sync_project run over a linked requirement whose remote
\* item already holds the requirement's values (the second of two runs over the
\* unchanged requirement) issues no remote update call for it, on each adapter.
C1_SecondPassIssuesNoUpdate ==
    [][SyncStep /\ last'.response.success =>
          \A i \in 1..Len(last'.batch) :
              InSyncWith(remote, kind, last'.requirements[i], sync_config) =>
                  \A c \in 1..Len(last'.calls) :
                      ~(last'.calls[c].idx = i /\ last'.calls[c].op = "update")]_vars

----------------------------------------------------------------------------
(* C2 *)

----------------------------------------------------------------------------
(* C3 *)

\* C3 (as claimed): once sync_project has created the remote item of a
\* requirement, the requirement dict carries the id the create call returned.
C3_CreatedRecordIsLinked ==
    Processed =>
        \A i \in Positions :
            \A c \in CallsOf(i, "create") :
                last.calls[c].ok =>
                    records[last.batch[i]].ref[RefKey(kind)] = last.calls[c].id

----------------------------------------------------------------------------
(* C4 *)

\* C4: when exactly one requirement of a processed batch of N fails, and it fails
\* in its create call, the result counts N-1 synced items, its errors list is the
\* one entry of that requirement, and every other requirement got its remote call.
C4_PartialFailureIsolation ==
    Processed =>
        \A k \in Positions :
            (FailedPositions = {k} /\ Unlinked(k)) =>
                /\ last.response.sync_results.synced_items = Len(last.batch) - 1
                /\ Len(last.response.sync_results.errors) = 1
                /\ last.response.sync_results.errors[1].req_id = last.requirements[k].req_id
                /\ \A j \in Positions \ {k} :
                      \E c \in 1..Len(last.calls) :
                          last.calls[c].idx = j /\ last.calls[c].ok

\* the first of two requirements fails in its create call, the second is created
C4_Witness ==
    /\ Processed
    /\ Len(last.batch) = 2
    /\ FailedPositions = {1}
    /\ Unlinked(1)
    /\ CallsOf(2, "create") # {}

----------------------------------------------------------------------------
(* C7 *)

\* C7 (as claimed): a sync_project run over one linked requirement whose remote
\* item already holds its values returns synced 1, created 0, updated 0, no errors.
C7_UnchangedResyncCountsNoUpdate ==
    [][(/\ SyncStep
        /\ last'.response.success
        /\ Len(last'.batch) = 1
        /\ last'.fails[1] = "ok"
        /\ InSyncWith(remote, kind, last'.requirements[1], sync_config))
       => last'.response.sync_results = Results(1, 0, 0, <<>>)]_vars

----------------------------------------------------------------------------
(* C8 *)

ScenarioMapping(k) == << Entry("title", TitleField(k)), Entry("text", DescField(k)) >>

\* C8 (as claimed): the first sync of R1 {title, text, std_tags}, unlinked, with
\* the mapping title -> summary, text -> description and item type Story issues
\* one create call carrying summary = title and description = text and no
\* std_tags, leaves R1 with an external reference and returns 1, 1, 0, [].
C8_FirstSyncScenario ==
    (/\ Processed
     /\ kind = "jira"
     /\ last.batch = << "R1" >>
     /\ Unlinked(1)
     /\ last.fails[1] = "ok"
     /\ sync_config.field_mapping = ScenarioMapping("jira")
     /\ sync_config.issue_type = "Story")
    => /\ Cardinality(CallsOf(1, "create")) = 1
       /\ \A c \in CallsOf(1, "create") :
             /\ Paths(last.calls[c].doc) \ {"project", "issuetype"} = {"summary", "description"}
             /\ ValueAt(last.calls[c].doc, "summary") = last.requirements[1].title
             /\ ValueAt(last.calls[c].doc, "description") = last.requirements[1].text
             /\ ValueAt(last.calls[c].doc, "issuetype") = "Story"
       /\ last.response.sync_results = Results(1, 1, 0, <<>>)
       /\ records["R1"].ref["jira_issue_key"] # 0

----------------------------------------------------------------------------
(* The factory specification: one ALMFactory and its callers *)

SyncIdle ==
    /\ kind = "jira"
    /\ client = FALSE
    /\ sync_config = SyncConfig("jira", Absent, Absent, <<>>)
    /\ records \in Catalogs
    /\ remote = <<>>
    /\ parked = NoParked
    /\ session = NoSession
    /\ last = NoCall

InitFactory ==
    /\ FactoryIdle
    /\ SyncIdle
    /\ OthersIdle

\* ALMFactory.initialize(): loaded is the set of backends whose secret could be
\* read, outcome what each adapter's initialize() does
FactoryInitialize(loaded, outcome) ==
    /\ flast.op = "none"
    /\ \A b \in BackendSet \ loaded : outcome[b] = "ok"
    /\ configurations' = [b \in BackendSet |-> b \in loaded]
    /\ adapters' = initialize_adapters(adapters, configurations', outcome, 1)
    /\ initOutcome' = [b \in BackendSet |-> IF b \in loaded THEN outcome[b] ELSE "not_configured"]
    /\ flast' = [op |-> "initialize", alm_type |-> None, invoked |-> FALSE, raised |-> FALSE,
                 response |-> Envelope(TRUE, None), names |-> {}]
    /\ UNCHANGED <<syncVars, mlast, olast>>

PassThrough(op, alm_type, how) ==
    LET out == pass_through(adapters, op, alm_type, how) IN
    /\ ~get_adapter(adapters, alm_type).has_client => how = "ok"
    /\ flast' = [op |-> op, alm_type |-> alm_type, invoked |-> out.invoked,
                 raised |-> out.raised, response |-> out.response, names |-> {}]
    /\ UNCHANGED <<adapters, configurations, initOutcome, syncVars, mlast, olast>>

GetAvailableAdapters ==
    LET out == get_available_adapters(adapters) IN
    /\ flast' = [op |-> "get_available_adapters", alm_type |-> None, invoked |-> FALSE,
                 raised |-> out.raised, response |-> Envelope(~out.raised, None),
                 names |-> out.names]
    /\ UNCHANGED <<adapters, configurations, initOutcome, syncVars, mlast, olast>>

\* how[b] is what the remote call of b's health_check does
GetHealthStatus(how) ==
    LET out == get_health_status(adapters, how) IN
    /\ \A b \in BackendSet : ~adapters[b].has_client => how[b] = "ok"
    /\ flast' = [op |-> "get_health_status", raised |-> FALSE, how |-> how,
                 registered |-> {b \in BackendSet : adapters[b].registered},
                 health_status |-> out]
    /\ UNCHANGED <<adapters, configurations, initOutcome, syncVars, mlast, olast>>

\* how[b] is what closing b's client does; only the Polarion adapter closes one
FactoryCleanup(how) ==
    LET out == factory_cleanup(adapters, configurations, how) IN
    /\ flast.op # "none"
    /\ \A b \in BackendSet : how[b] # "ok" => (b = "polarion" /\ adapters[b].has_client)
    /\ adapters' = out.adapters
    /\ configurations' = out.configurations
    /\ initOutcome' = NotConfigured
    /\ flast' = [op |-> "cleanup", raised |-> out.raised, how |-> how,
                 registered |-> {b \in BackendSet : adapters[b].registered},
                 cleaned |-> out.cleaned]
    /\ UNCHANGED <<syncVars, mlast, olast>>

NextFactory ==
    \/ \E loaded \in SUBSET BackendSet : \E outcome \in [BackendSet -> InitOutcomes] :
          FactoryInitialize(loaded, outcome)
    \/ \E op \in PassThroughOps : \E alm_type \in AlmTypes : \E how \in FailKinds :
          PassThrough(op, alm_type, how)
    \/ GetAvailableAdapters
    \/ \E how \in [BackendSet -> FailKinds] : GetHealthStatus(how)
    \/ \E how \in [BackendSet -> {"ok", "exception"}] : FactoryCleanup(how)

SpecFactory == InitFactory /\ [][NextFactory]_vars

----------------------------------------------------------------------------
(* C5 *)

FailedInit(b) == initOutcome[b] \in {"bad_config", "connect_failed"}

\* C5 (as claimed): a backend whose initialize() returned False is not stored in
\* the factory (get_adapter finds nothing for it) and is not listed, while every
\* backend whose initialize() returned True is stored.
C5_FailedBackendExcluded ==
    \A b \in BackendSet :
        /\ FailedInit(b) => ~get_adapter(adapters, b).registered
        /\ initOutcome[b] = "ok" => get_adapter(adapters, b).registered
        /\ flast.op = "get_available_adapters" => ~flast.raised

----------------------------------------------------------------------------
(* C6 *)

\* C6 (as claimed): a pass-through operation for a backend that was never
\* configured or whose adapter failed to initialize returns success = false with
\* the adapter-not-available error, does not raise and invokes no adapter method.
C6_UnavailableBackendRejected ==
    (/\ flast.op \in PassThroughOps
     /\ \/ Lower(flast.alm_type) \notin BackendSet
        \/ initOutcome[Lower(flast.alm_type)] # "ok")
    => /\ ~flast.response.success
       /\ flast.response.error = "Adapter not available"
       /\ ~flast.raised
       /\ ~flast.invoked

----------------------------------------------------------------------------
(* The specification of map_fields: the function applied to drawn inputs *)

\* items per field_mapping
MaxMapping == 2

SourceFields == {"title", "text", "std_tags"}

MapTargets == {"summary", "description"}

MapEntries ==
    {MapEntry(src, FALSE, tgt, Absent) : src \in SourceFields, tgt \in MapTargets}
    \cup {MapEntry(src, TRUE, field, t) :
            src \in SourceFields, field \in MapTargets \cup {Absent}, t \in Transforms}

\* a dict has one item per key
FieldMappings ==
    UNION {{m \in [1..n -> MapEntries] : \A i, j \in 1..n : m[i].src = m[j].src => i = j}
           : n \in 0..MaxMapping}

InitMap ==
    /\ FactoryIdle
    /\ SyncIdle
    /\ mlast = NoCall
    /\ olast = NoCall

MapFields(r, field_mapping) ==
    /\ mlast.op = "none"
    /\ mlast' = [op |-> "map_fields", source_data |-> records[r],
                 field_mapping |-> field_mapping,
                 mapped_data |-> map_fields(records[r], field_mapping)]
    /\ UNCHANGED <<syncVars, factoryVars, olast>>

NextMap == \E r \in RecIds : \E field_mapping \in FieldMappings : MapFields(r, field_mapping)

SpecMap == InitMap /\ [][NextMap]_vars

----------------------------------------------------------------------------
(* The specification of the contract operations: one adapter, one caller *)

InitOps ==
    /\ FactoryIdle
    /\ kind \in BackendSet
    /\ client \in BOOLEAN
    /\ sync_config = SyncConfig(kind, Absent, Absent, <<>>)
    /\ records \in Catalogs
    /\ remote = <<>>
    /\ parked = NoParked
    /\ session = NoSession
    /\ last = NoCall
    /\ mlast = NoCall
    /\ olast = NoCall

ContractOp(op, project, item_id, fail) ==
    LET out == contract_op(kind, op, client, project, item_id, fail) IN
    /\ ~out.called => fail = "ok"
    /\ olast' = [op |-> op, project |-> project, item_id |-> item_id, fail |-> fail,
                 outcome |-> out]
    /\ UNCHANGED <<syncVars, factoryVars, mlast>>

NextOps ==
    \E op \in ContractOps : \E project \in {"PROJ", Absent} :
    \E item_id \in ItemIds : \E fail \in FailKinds :
        ContractOp(op, project, item_id, fail)

SpecOps == InitOps /\ [][NextOps]_vars

----------------------------------------------------------------------------
(* C9 *)

\* the payloads built from a record and a field mapping: by map_fields, and by
\* the create path of the last sync_project
PayloadsBuilt ==
    (IF mlast.op = "map_fields"
     THEN {[doc |-> mlast.mapped_data, source |-> mlast.source_data,
            targets |-> {[src |-> mlast.field_mapping[i].src,
                          tgt |-> mlast.field_mapping[i].field,
                          transform |-> mlast.field_mapping[i].transform]
                         : i \in 1..Len(mlast.field_mapping)}]}
     ELSE {})
    \cup
    (IF IsSync
     THEN {[doc |-> last.calls[c].doc, source |-> last.requirements[last.calls[c].idx],
            targets |-> {[src |-> sync_config.field_mapping[i].src,
                          tgt |-> sync_config.field_mapping[i].tgt,
                          transform |-> Absent]
                         : i \in 1..Len(sync_config.field_mapping)}]
           : c \in {c \in 1..Len(last.calls) : last.calls[c].op = "create"}}
     ELSE {})

\* C9 (as claimed): a built payload holds no target field of a mapping entry
\* whose source attribute is absent from the record, and holds the (transformed)
\* value under the target field of every entry whose source attribute is present.
C9_SkipRule ==
    \A p \in PayloadsBuilt : \A e \in p.targets :
        /\ ~Has(p.source, e.src) => e.tgt \notin Paths(p.doc)
        /\ Has(p.source, e.src) =>
              /\ e.tgt \in Paths(p.doc)
              /\ ValueAt(p.doc, e.tgt) = ApplyTransform(e.transform, p.source[e.src])

----------------------------------------------------------------------------
(* C10 *)

\* C10 (as claimed): a contract operation never raises to its caller, and when
\* the backend client fails (error, exception, or an id it cannot use) the
\* operation returns success = false with an error string.
C10_OperationsNonThrowing ==
    olast.op # "none" =>
        /\ ~olast.outcome.raised
        /\ (olast.outcome.called /\ olast.fail # "ok") =>
              (~olast.outcome.success /\ olast.outcome.error # None)

----------------------------------------------------------------------------
(* C11 *)

\* C11: sync_project never raises; it returns a result, and when it has run its
\* loop every requirement whose remote call failed has an entry in errors with
\* its req_id and an error message.
C11_SyncNeverRaises ==
    IsSync =>
        /\ ~last.response.raised
        /\ last.response.success =>
              \A i \in FailedPositions :
                  \E e \in 1..Len(last.response.sync_results.errors) :
                      /\ last.response.sync_results.errors[e].req_id = last.requirements[i].req_id
                      /\ last.response.sync_results.errors[e].error \notin {None, Absent, ""}

\* a batch of two whose first requirement raised and whose second failed with
\* the library's error
C11_Witness ==
    /\ Processed
    /\ Len(last.batch) = 2
    /\ last.fails = <<"exception", "error">>
    /\ Len(last.response.sync_results.errors) = 2

----------------------------------------------------------------------------
(* C12 *)

\* the position in the batch of the requirement an errors entry names
PositionOf(req_id) == CHOOSE i \in Positions : last.requirements[i].req_id = req_id

\* C12: within one sync_project call the remote calls are issued requirement by
\* requirement in the order of the requirements list (every call for
\* requirement i precedes every call for requirement i+1), and the errors list
\* is in the order of the list.
C12_InputOrder ==
    IsSync =>
        /\ \A c, d \in 1..Len(last.calls) :
              c < d => last.calls[c].idx <= last.calls[d].idx
        /\ \A e, f \in 1..Len(last.response.sync_results.errors) :
              e < f => PositionOf(last.response.sync_results.errors[e].req_id)
                         < PositionOf(last.response.sync_results.errors[f].req_id)

\* two requirements, each with a remote call that failed
C12_Witness ==
    /\ Processed
    /\ Len(last.batch) = 2
    /\ CallsOf(1, "create") # {}
    /\ CallsOf(2, "create") # {}
    /\ FailedPositions = {1, 2}
    /\ Len(last.response.sync_results.errors) = 2

----------------------------------------------------------------------------
(* The specification of initialize(): one freshly constructed adapter *)

ConfigValues == {Absent, "", "v"}

\* the config dicts an adapter is constructed with
AdapterConfigs(k) ==
    [{RequiredFields(k)[i] : i \in 1..Len(RequiredFields(k))} -> ConfigValues]

\* olast holds the adapter as constructed: its config, no client, not initialized
InitAdapter ==
    /\ FactoryIdle
    /\ kind \in BackendSet
    /\ client = FALSE
    /\ sync_config = SyncConfig(kind, Absent, Absent, <<>>)
    /\ records \in Catalogs
    /\ remote = <<>>
    /\ parked = NoParked
    /\ session = NoSession
    /\ last = NoCall
    /\ mlast = NoCall
    /\ \E config \in AdapterConfigs(kind) :
          olast = [op |-> "constructed", config |-> config, initialized |-> FALSE]

\* build, login and test are what the client constructor, the login request and
\* the remote call of test_connection do
Initialize(build, login, test) ==
    LET out == initialize(kind, olast.config, build, login, test) IN
    /\ olast.op = "constructed"
    /\ "client" \notin {out.steps[i] : i \in 1..Len(out.steps)} => build = "ok"
    /\ "login" \notin {out.steps[i] : i \in 1..Len(out.steps)} => login = "ok"
    /\ "test_connection" \notin {out.steps[i] : i \in 1..Len(out.steps)} => test = "ok"
    /\ build # "error"
    /\ client' = out.has_client
    /\ olast' = [op |-> "initialize", config |-> olast.config, initialized |-> out.initialized,
                 build |-> build, login |-> login, test |-> test,
                 returned |-> out.returned, raised |-> out.raised, steps |-> out.steps]
    /\ UNCHANGED <<kind, sync_config, records, remote, last, parked, session, factoryVars, mlast>>

NextAdapter ==
    \E build \in FailKinds : \E login \in FailKinds : \E test \in FailKinds :
        Initialize(build, login, test)

SpecAdapter == InitAdapter /\ [][NextAdapter]_vars

----------------------------------------------------------------------------
(* C13 *)

ConfigValid == \A f \in DOMAIN olast.config : olast.config[f] \notin {Absent, ""}

\* C13: initialize() never raises; with a required key missing or empty it
\* returns False having built no client and made no remote call; it returns
\* False when the login or test_connection fails; it calls test_connection at
\* most once; it returns True, with initialized set, exactly when the config is
\* valid and the client, the login and test_connection all succeeded.
C13_InitializeReturnsFalseOnFailure ==
    olast.op = "initialize" =>
        /\ ~olast.raised
        /\ ~ConfigValid => (~olast.returned /\ olast.steps = <<>> /\ ~client)
        /\ (olast.build # "ok" \/ olast.login # "ok" \/ olast.test # "ok") => ~olast.returned
        /\ Cardinality({i \in 1..Len(olast.steps) : olast.steps[i] = "test_connection"}) <= 1
        /\ olast.returned <=> olast.initialized
        /\ olast.returned <=>
              (/\ ConfigValid
               /\ olast.build = "ok" /\ olast.login = "ok" /\ olast.test = "ok"
               /\ olast.steps[Len(olast.steps)] = "test_connection")

\* a config with every required key present and one of them empty, after initialize()
C13_Witness ==
    /\ olast.op = "initialize"
    /\ \E f \in DOMAIN olast.config : olast.config[f] = ""
    /\ \A f \in DOMAIN olast.config : olast.config[f] # Absent
    /\ ~olast.returned

----------------------------------------------------------------------------
(* C14 *)

\* C14: after ALMFactory.initialize(), every backend whose configuration was
\* loaded and whose initialize() succeeded is registered and initialized,
\* whatever happened to the other backends, earlier or later in the order
\* jira, azure_devops, polarion.
C14_BackendsInitializedIndependently ==
    flast.op # "none" =>
        \A b \in BackendSet :
            /\ configurations[b] <=> initOutcome[b] # "not_configured"
            /\ initOutcome[b] = "ok" => adapters[b] = Adapter(TRUE, TRUE)

\* jira failed to initialize, azure_devops has no configuration, polarion succeeded
C14_Witness ==
    /\ initOutcome["jira"] = "connect_failed"
    /\ initOutcome["azure_devops"] = "not_configured"
    /\ initOutcome["polarion"] = "ok"
    /\ adapters["polarion"].registered
    /\ adapters["polarion"].initialized

----------------------------------------------------------------------------
(* C15 *)

\* C15: get_health_status() never raises, checks every registered adapter and
\* no other, reports one entry per registered adapter, and overall_healthy is
\* false exactly when some adapter reported unhealthy (or raised).
C15_HealthAggregation ==
    flast.op = "get_health_status" =>
        /\ ~flast.raised
        /\ {flast.health_status.checked[i] : i \in 1..Len(flast.health_status.checked)}
              = flast.registered
        /\ Len(flast.health_status.checked) = Cardinality(flast.registered)
        /\ \A b \in BackendSet :
              flast.health_status.adapters[b].reported <=> b \in flast.registered
        /\ \A b \in flast.registered :
              flast.health_status.adapters[b].healthy
                 <=> (adapters[b].has_client /\ flast.how[b] = "ok")
        /\ ~flast.health_status.overall_healthy
              <=> \E b \in flast.registered : ~flast.health_status.adapters[b].healthy

\* three registered adapters, the first unhealthy and the later two healthy
C15_Witness ==
    /\ flast.op = "get_health_status"
    /\ flast.registered = BackendSet
    /\ ~flast.health_status.adapters["jira"].healthy
    /\ flast.health_status.adapters["azure_devops"].healthy
    /\ flast.health_status.adapters["polarion"].healthy
    /\ ~flast.health_status.overall_healthy

----------------------------------------------------------------------------
(* C16 *)

\* C16: cleanup() never raises, invokes cleanup on every registered adapter even
\* when closing a client fails, and leaves adapters and configurations empty;
\* they stay empty, and every pass-through operation on the emptied factory
\* answers "adapter not available" without invoking an adapter.
C16_CleanupClearsFactory ==
    /\ [](flast.op = "cleanup" =>
            /\ ~flast.raised
            /\ flast.cleaned = flast.registered
            /\ adapters = NoAdapters
            /\ configurations = NoConfigurations)
    /\ [][flast.op = "cleanup" \/ (flast.op # "none" /\ adapters = NoAdapters)
             => adapters' = NoAdapters /\ configurations' = NoConfigurations]_vars
    /\ []((flast.op \in PassThroughOps /\ adapters = NoAdapters) =>
            /\ flast.response = Envelope(FALSE, "Adapter not available")
            /\ ~flast.invoked
            /\ ~flast.raised)

\* three adapters were registered, closing the Polarion client failed, and
\* cleanup() has returned
C16_Witness ==
    /\ flast.op = "cleanup"
    /\ flast.registered = BackendSet
    /\ flast.how["polarion"] = "exception"
    /\ flast.cleaned = BackendSet

----------------------------------------------------------------------------
(* The specification of retry_operation: one call, attempt by attempt *)

\* largest max_retries a caller passes
MaxRetries == 3

\* the delays a caller passes
Delays == {1, 2}

InitRetry ==
    /\ FactoryIdle
    /\ SyncIdle
    /\ mlast = NoCall
    /\ olast = NoCall

RetryStart(max_retries, delay) ==
    /\ olast.op = "none"
    /\ olast' = retry_enter(max_retries, delay)
    /\ UNCHANGED <<syncVars, factoryVars, mlast>>

RetryAttempt(outcome) ==
    /\ olast.op = "retry_operation"
    /\ olast.pc = "attempt"
    /\ olast' = retry_attempt(olast, outcome)
    /\ UNCHANGED <<syncVars, factoryVars, mlast>>

RetrySleep ==
    /\ olast.op = "retry_operation"
    /\ olast.pc = "sleep"
    /\ olast' = retry_sleep(olast)
    /\ UNCHANGED <<syncVars, factoryVars, mlast>>

NextRetry ==
    \/ \E max_retries \in -1..MaxRetries : \E delay \in Delays : RetryStart(max_retries, delay)
    \/ \E outcome \in OperationOutcomes : RetryAttempt(outcome)
    \/ RetrySleep

SpecRetry == InitRetry /\ [][NextRetry]_vars

----------------------------------------------------------------------------
(* C17 *)

IsRetry == olast.op = "retry_operation"

Attempts == Len(olast.outcomes)

\* C17: with max_retries = N >= 1 the operation is invoked at most N times and
\* never again after an attempt that succeeded; the call ends exactly when an
\* attempt succeeds, returning that attempt's value, or when the N-th attempt
\* fails, raising the exception of that attempt as it is.
C17_RetryBoundedAndSurfacesException ==
    (IsRetry /\ olast.max_retries >= 1) =>
        /\ Attempts <= olast.max_retries
        /\ \A i \in 1..(Attempts - 1) : olast.outcomes[i] # "ok"
        /\ olast.pc = "done" <=>
              (Attempts >= 1 /\ (olast.outcomes[Attempts] = "ok" \/ Attempts = olast.max_retries))
        /\ (olast.pc = "done" /\ olast.outcomes[Attempts] = "ok") =>
              olast.result = ValueOf(Attempts - 1)
        /\ (olast.pc = "done" /\ olast.outcomes[Attempts] # "ok") =>
              olast.result = ExceptionOf(olast.outcomes[Attempts], Attempts - 1)

\* three attempts, each failing in its own way, and the third exception raised
C17_Witness ==
    /\ IsRetry
    /\ olast.max_retries = 3
    /\ olast.outcomes = <<"transient", "validation", "authentication">>
    /\ olast.pc = "done"
    /\ olast.result = ExceptionOf("authentication", 2)

----------------------------------------------------------------------------
(* C18 *)

\* C18 (as claimed): when an attempt fails with a validation or authentication
\* error, retry_operation raises it at once: no sleep and no further attempt.
C18_NonTransientNotRetried ==
    IsRetry =>
        \A i \in 1..Attempts :
            olast.outcomes[i] \in {"validation", "authentication"} =>
                /\ Attempts = i
                /\ olast.pc = "done"
                /\ Len(olast.waits) = i - 1
                /\ olast.result = ExceptionOf(olast.outcomes[i], i - 1)

----------------------------------------------------------------------------
(* The specification of calls without a target project: one adapter whose   *)
(* sync_config names no project, its sync_project and its create_item       *)

InitProject ==
    /\ FactoryIdle
    /\ kind \in BackendSet
    /\ client \in BOOLEAN
    /\ sync_config \in {SyncConfig(kind, project, Absent, <<>>) : project \in {Absent, ""}}
    /\ records \in Catalogs
    /\ remote = <<>>
    /\ parked = NoParked
    /\ session = NoSession
    /\ last = NoCall
    /\ mlast = NoCall
    /\ olast = NoCall

NextProject ==
    \/ \E batch \in Batches : \E fails \in [1..Len(batch) -> FailKinds] :
          SyncProject(batch, fails, "ok")
    \/ \E project \in {"PROJ", "", Absent} : \E fail \in FailKinds :
          ContractOp("create_item", project, "1", fail)

SpecProject == InitProject /\ [][NextProject]_vars

----------------------------------------------------------------------------
(* C19 *)

\* C19: sync_project with no project key in sync_config (absent or empty), and
\* create_item with no project in project_config, return success = false, issue
\* no remote call (so none is repeated) and process no record.
C19_MissingProjectFailsFast ==
    /\ (IsSync /\ sync_config[ProjectKey(kind)] \in {Absent, ""}) =>
          /\ ~last.response.success
          /\ ~last.response.raised
          /\ last.response.error \notin {None, ""}
          /\ last.calls = <<>>
          /\ last.response.sync_results = sync_results0
          /\ remote = <<>>
    /\ (olast.op = "create_item" /\ olast.project \in {Absent, ""}) =>
          /\ ~olast.outcome.success
          /\ ~olast.outcome.raised
          /\ olast.outcome.error \notin {None, ""}
          /\ ~olast.outcome.called

\* an adapter with its client set was asked to sync two requirements without a
\* project key and to create an item with an empty project
C19_Witness ==
    /\ client
    /\ IsSync
    /\ Len(last.batch) = 2
    /\ sync_config[ProjectKey(kind)] = ""
    /\ olast.op = "create_item"
    /\ olast.project = ""
    /\ ~last.response.success
    /\ ~olast.outcome.success

----------------------------------------------------------------------------
(* The specification of one caller and the three adapters: the caller syncs *)
(* its requirement dicts against one backend, then against another          *)

\* the sync_config the caller passes to adapter k
CrossConfig(k) == SyncConfig(k, "PROJ", "Story", <<>>)

\* the caller passes one requirement per call
CrossBatches == {batch \in Batches : Len(batch) = 1}

InitCross ==
    /\ FactoryIdle
    /\ kind \in BackendSet
    /\ client = TRUE
    /\ sync_config = CrossConfig(kind)
    /\ records \in Catalogs
    /\ remote = <<>>
    /\ parked = NoParked
    /\ session = NoSession
    /\ last = NoCall
    /\ mlast = NoCall
    /\ olast = NoCall

\* the caller turns to the adapter of backend k: remote is now k's work items,
\* last the last call on that adapter
UseAdapter(k) ==
    /\ k # kind
    /\ kind' = k
    /\ sync_config' = CrossConfig(k)
    /\ remote' = parked[k]
    /\ parked' = [parked EXCEPT ![kind] = remote, ![k] = <<>>]
    /\ last' = NoCall
    /\ UNCHANGED <<client, records, session, factoryVars, mlast, olast>>

NextCross ==
    \/ \E batch \in CrossBatches : \E fails \in [1..Len(batch) -> {"ok"}] :
          SyncProject(batch, fails, "ok")
    \/ \E r \in RecIds : \E id \in 1..MaxItems : Link(r, id)
    \/ \E k \in BackendSet : UseAdapter(k)

SpecCross == InitCross /\ [][NextCross]_vars

----------------------------------------------------------------------------
(* C20 *)

\* C20: a sync_project call on the adapter of one backend leaves every
\* reference the requirement dicts hold for the other backends as it was.
C20_OtherBackendReferenceKept ==
    [][SyncStep =>
          \A r \in RecIds : \A b \in BackendSet \ {kind} :
              records'[r].ref[RefKey(b)] = records[r].ref[RefKey(b)]]_vars

\* R1 holds references for Jira and Azure DevOps and has just been created in
\* Polarion
C20_Witness ==
    /\ kind = "polarion"
    /\ records["R1"].ref["jira_issue_key"] # 0
    /\ records["R1"].ref["ado_work_item_id"] # 0
    /\ Processed
    /\ \E i \in Positions : last.batch[i] = "R1" /\ CallsOf(i, "create") # {}

----------------------------------------------------------------------------
(* C26 *)

RECURSIVE SumSeq(_)
SumSeq(q) == IF q = <<>> THEN 0 ELSE Head(q) + SumSeq(Tail(q))

\* C26: the i-th wait of a retry_operation call (i from 1) is delay * 2^(i-1)
\* and follows the failure of attempt i-1; there is no wait before the first
\* attempt and none after the last one, so a call whose N = max_retries
\* attempts all failed has waited delay * (2^(N-1) - 1) in total.
C26_ExponentialBackoff ==
    IsRetry =>
        /\ \A i \in 1..Len(olast.waits) :
              /\ olast.waits[i] = olast.delay * Pow2(i - 1)
              /\ i <= Attempts /\ olast.outcomes[i] # "ok"
        /\ olast.pc = "attempt" => Len(olast.waits) = Attempts
        /\ (olast.pc \in {"sleep", "done"} /\ Attempts >= 1) =>
              Len(olast.waits) = Attempts - 1
        /\ (olast.pc = "done" /\ Attempts >= 1 /\ Attempts = olast.max_retries
                /\ olast.outcomes[Attempts] # "ok") =>
              SumSeq(olast.waits) = olast.delay * (Pow2(olast.max_retries - 1) - 1)

\* the defaults: three failed attempts with delay 1, waits of 1 then 2
C26_Witness ==
    /\ IsRetry
    /\ olast.max_retries = 3
    /\ olast.delay = 1
    /\ olast.pc = "done"
    /\ olast.result.kind = "raised"
    /\ olast.waits = <<1, 2>>

----------------------------------------------------------------------------
(* C30 *)

\* C30: retry_operation called with max_retries <= 0 never invokes the
\* operation, does not wait and does not raise: it returns None, as a call
\* whose operation returned None does.
C30_NoAttemptReturnsNone ==
    (IsRetry /\ olast.max_retries <= 0) =>
        /\ olast.outcomes = <<>>
        /\ olast.waits = <<>>
        /\ olast.pc = "done"
        /\ olast.result.kind = "returned"
        /\ olast.result = ReturnedNone

\* a call with a negative max_retries has returned
C30_Witness ==
    /\ IsRetry
    /\ olast.max_retries = -1
    /\ olast.pc = "done"
    /\ olast.result = ReturnedNone

----------------------------------------------------------------------------
(* C28 *)

\* C28: in a sync_project run that reaches its loop, after each requirement
\* (and so in the returned result) synced_items = created_items +
\* updated_items, and synced_items + len(errors) is the number of requirements
\* handled so far, each of them either counted or listed once in errors.
C28_SyncResultAccounting ==
    [][(SyncStep /\ last'.response.success) =>
          \A n \in 0..Len(last'.batch) :
              LET r == SyncLoop(kind, remote, <<>>, sync_results0,
                                SubSeq(last'.requirements, 1, n),
                                sync_config[ProjectKey(kind)], sync_config,
                                SubSeq(last'.fails, 1, n)).sync_results
              IN /\ r.synced_items = r.created_items + r.updated_items
                 /\ r.synced_items + Len(r.errors) = n
                 /\ \A i, j \in 1..Len(r.errors) :
                       r.errors[i].req_id = r.errors[j].req_id => i = j
                 /\ \A i \in 1..Len(r.errors) :
                       \E m \in 1..n : last'.requirements[m].req_id = r.errors[i].req_id
                 /\ n = Len(last'.batch) => r = last'.response.sync_results]_vars

\* a batch of two: one requirement updated, the other listed in errors
C28_Witness ==
    /\ Processed
    /\ Len(last.batch) = 2
    /\ last.response.sync_results.synced_items = 1
    /\ last.response.sync_results.updated_items = 1
    /\ Len(last.response.sync_results.errors) = 1

----------------------------------------------------------------------------
(* C23 *)

\* C23: which path a requirement takes in sync_project depends on the
\* reference it holds for the adapter's own backend and on nothing else: with
\* that reference no create call is issued for it, without it no update and no
\* fetch call, whatever it holds for the other backends, and no requirement
\* gets both a create and an update call in one run.
C23_PathByOwnReference ==
    IsSync =>
        \A i \in Positions :
            /\ ~Unlinked(i) => CallsOf(i, "create") = {}
            /\ Unlinked(i) => CallsOf(i, "update") = {} /\ CallsOf(i, "fetch") = {}
            /\ (Processed /\ Unlinked(i)) => Cardinality(CallsOf(i, "create")) = 1
            /\ (Processed /\ ~Unlinked(i)) => CallsOf(i, "update") \cup CallsOf(i, "fetch") # {}
            /\ ~(CallsOf(i, "create") # {} /\ CallsOf(i, "update") # {})

\* R1 holds a reference for Jira and none for Polarion, and the Polarion
\* adapter has issued a create call for it
C23_Witness ==
    /\ kind = "polarion"
    /\ Processed
    /\ last.batch = << "R1" >>
    /\ last.requirements[1].ref["jira_issue_key"] # 0
    /\ Unlinked(1)
    /\ CallsOf(1, "create") # {}
    /\ CallsOf(1, "update") = {}

----------------------------------------------------------------------------
(* The specification of a caller that edits its requirements between syncs  *)
(* and passes a field_mapping of its choice with each call                  *)

\* sync_config["field_mapping"]: none, std_tags to a custom field, the same
\* with a transform declared
EditMappings(k) ==
    { <<>>,
      << Entry("std_tags", TagField(k)) >>,
      << TransformEntry("std_tags", TagField(k), "upper") >> }

\* the values the caller gives to the fields of R1
EditValues(field) ==
    IF field = "title" THEN {"Validate login", "Validate logout"}
    ELSE {"ISO_13485", "iso_13485"}

InitEdit ==
    /\ FactoryIdle
    /\ OthersIdle
    /\ kind \in BackendSet
    /\ client = TRUE
    /\ sync_config \in {SyncConfig(kind, "PROJ", "Story", m) : m \in EditMappings(kind)}
    /\ records \in Catalogs
    /\ remote = <<>>
    /\ parked = NoParked
    /\ session = NoSession
    /\ last = NoCall

\* the caller changes a field of R1
Edit(field, value) ==
    /\ records["R1"][field] # value
    /\ records' = [records EXCEPT !["R1"][field] = value]
    /\ UNCHANGED <<kind, client, sync_config, remote, last, parked, session>>
    /\ UNCHANGED <<factoryVars, mlast, olast>>

\* the caller passes another field_mapping from now on
Configure(field_mapping) ==
    /\ sync_config.field_mapping # field_mapping
    /\ sync_config' = [sync_config EXCEPT !.field_mapping = field_mapping]
    /\ UNCHANGED <<kind, client, records, remote, last, parked, session>>
    /\ UNCHANGED <<factoryVars, mlast, olast>>

NextEdit ==
    \/ \E batch \in CrossBatches : \E fails \in [1..Len(batch) -> FailKinds] :
          SyncProject(batch, fails, "ok")
    \/ \E r \in RecIds : \E id \in 1..MaxItems : Link(r, id)
    \/ \E field \in {"title", "std_tags"} : \E value \in EditValues(field) : Edit(field, value)
    \/ \E field_mapping \in EditMappings(kind) : Configure(field_mapping)

SpecEdit == InitEdit /\ [][NextEdit]_vars

----------------------------------------------------------------------------
(* C22 *)

\* the fields of the remote item id whose value differs from what a sync of
\* req writes
ChangedFields(items, id, k, req, cfg) ==
    {f \in Paths(FullPayload(k, req, cfg)) :
        items[id][f] # ValueAt(FullPayload(k, req, cfg), f)}

\* C22 (as claimed): when sync_project handles a linked requirement some of
\* whose values differ from those of its remote item, it issues one update
\* call, and that call carries exactly the fields whose value differs.
C22_UpdateCarriesChangedFields ==
    [][(SyncStep /\ last'.response.success) =>
          \A i \in 1..Len(last'.batch) :
              LET req == last'.requirements[i]
                  id == req.ref[RefKey(kind)]
              IN (/\ id \in 1..Len(remote)
                  /\ ~HasDictTarget(sync_config.field_mapping)
                  /\ ChangedFields(remote, id, kind, req, sync_config) # {})
                 => \E c \in 1..Len(last'.calls) :
                       /\ last'.calls[c].idx = i
                       /\ last'.calls[c].op = "update"
                       /\ Paths(last'.calls[c].doc) =
                              ChangedFields(remote, id, kind, req, sync_config)
                       /\ \A d \in 1..Len(last'.calls) :
                             (last'.calls[d].idx = i /\ last'.calls[d].op = "update") => d = c]_vars

----------------------------------------------------------------------------
(* C24 *)

\* C24 (as claimed): when sync_project handles a linked requirement under a
\* mapping entry that declares a transform, and the transformed value equals
\* the value of the remote item, the field is not sent; if nothing else
\* differs either, the requirement is a no-op: no update call, counted as
\* synced.
C24_ComparisonAfterTransform ==
    [][(SyncStep /\ last'.response.success) =>
          \A i \in 1..Len(last'.batch) :
              LET req == last'.requirements[i]
                  id == req.ref[RefKey(kind)]
                  entries == MappedEntries(req, sync_config.field_mapping)
              IN \A j \in 1..Len(entries) :
                    (/\ id \in 1..Len(remote)
                     /\ entries[j].tgt = DictTarget
                     /\ ApplyTransform(entries[j].transform, req[entries[j].src])
                            = remote[id][entries[j].field])
                    => /\ \A c \in 1..Len(last'.calls) :
                             (last'.calls[c].idx = i /\ last'.calls[c].op = "update")
                                 => entries[j].field \notin Paths(last'.calls[c].doc)
                       /\ (/\ Len(entries) = 1
                           /\ remote[id][TitleField(kind)] = DefaultTitle(req)
                           /\ remote[id][DescField(kind)] = Get(req, "text", "")
                           /\ last'.fails[i] = "ok")
                          => \A n \in 1..Len(last'.response.sync_results.errors) :
                                last'.response.sync_results.errors[n].req_id # req.req_id]_vars

----------------------------------------------------------------------------
(* The specification of create_item and update_item with their payloads:    *)
(* one initialized adapter, one call                                        *)

InitItem ==
    /\ FactoryIdle
    /\ kind \in BackendSet
    /\ client = TRUE
    /\ sync_config = SyncConfig(kind, Absent, Absent, <<>>)
    /\ records \in Catalogs
    /\ remote = <<>>
    /\ parked = NoParked
    /\ session = NoSession
    /\ last = NoCall
    /\ mlast = NoCall
    /\ olast = NoCall

\* create_item(item_type, item_data, project_config) and
\* update_item(item_id, item_data, project_config), item_data being r
WriteItem(op, r, field_mapping, fail) ==
    /\ olast.op = "none"
    /\ olast' = [op |-> op, project |-> "PROJ", item_id |-> "1", fail |-> fail,
                 outcome |-> contract_op(kind, op, client, "PROJ", "1", fail),
                 item_data |-> records[r], field_mapping |-> field_mapping,
                 mapped_data |-> map_fields(records[r], field_mapping),
                 doc |-> item_document(kind, op, "PROJ", "Story",
                                       map_fields(records[r], field_mapping))]
    /\ UNCHANGED <<syncVars, factoryVars, mlast>>

NextItem ==
    \E op \in {"create_item", "update_item"} : \E r \in RecIds :
    \E field_mapping \in FieldMappings : \E fail \in FailKinds :
        WriteItem(op, r, field_mapping, fail)

SpecItem == InitItem /\ [][NextItem]_vars

----------------------------------------------------------------------------
(* C25 *)

\* C25 (as claimed): the Azure DevOps adapter calls update_work_item only with
\* a patch document that is not empty and holds replace operations only, in
\* the update path of sync_project and in update_item.
C25_NoEmptyPatch ==
    /\ (IsSync /\ kind = "azure_devops") =>
          \A c \in 1..Len(last.calls) :
              last.calls[c].op = "update" =>
                  /\ last.calls[c].doc # <<>>
                  /\ \A i \in 1..Len(last.calls[c].doc) : last.calls[c].doc[i].op = "replace"
    /\ (olast.op = "update_item" /\ kind = "azure_devops" /\ olast.outcome.called) =>
          /\ olast.doc # <<>>
          /\ \A i \in 1..Len(olast.doc) : olast.doc[i].op = "replace"

----------------------------------------------------------------------------
(* C29 *)

\* an entry of the mapping whose source field is in item_data and whose
\* transform raises
RaisingEntryPresent ==
    \E i \in 1..Len(olast.field_mapping) :
        /\ Has(olast.item_data, olast.field_mapping[i].src)
        /\ olast.field_mapping[i].struct
        /\ olast.field_mapping[i].field # Absent
        /\ olast.field_mapping[i].transform = "raises"

\* C29: when the transform of a present mapping entry raises inside
\* create_item or update_item, map_fields hands back an empty dict, whatever
\* the entries before it mapped, and the operation goes on to its remote call
\* with a document that holds no mapped field; the envelope is the one the
\* remote call determines, a success when that call succeeds.
C29_MapFieldsAllOrNothing ==
    (olast.op \in {"create_item", "update_item"} /\ RaisingEntryPresent) =>
        /\ olast.mapped_data = <<>>
        /\ olast.outcome.called
        /\ kind = "jira" =>
              Paths(olast.doc) = IF olast.op = "create_item"
                                 THEN {"project", "issuetype"} ELSE {}
        /\ kind = "azure_devops" => olast.doc = <<>>
        /\ kind = "polarion" =>
              olast.doc = << Write("set", "title", ""), Write("set", "description", "") >>
        /\ olast.fail = "ok" => (~olast.outcome.raised /\ olast.outcome.success)

\* the second entry raises after the first one was mapped, in Jira's
\* create_item, which answers with a success envelope
C29_Witness ==
    /\ olast.op = "create_item"
    /\ kind = "jira"
    /\ Len(olast.field_mapping) = 2
    /\ ~olast.field_mapping[1].struct
    /\ Has(olast.item_data, olast.field_mapping[1].src)
    /\ olast.field_mapping[2].transform = "raises"
    /\ RaisingEntryPresent
    /\ olast.mapped_data = <<>>
    /\ olast.outcome.called
    /\ olast.outcome.success

(***************************************************************************)
(* PolarionAdapter's session: http_client, session_id and the SOAP         *)
(* requests posted through them.  sync_project and cleanup are coroutines  *)
(* of one event loop: they interleave at their await points only, so each  *)
(* action below runs from one await to the next.                           *)
(***************************************************************************)

\* logIn calls that may succeed, and requests that may be posted, in one run
MaxLogins == 2
MaxRequests == 5

\* contract operations invoked on the adapter: two that post, two stubs
SessionOps == {"get_item", "get_projects", "create_link", "get_item_types"}

\* a SOAP request on the wire: its operation, the sessionID of its header
\* (0: an empty header, or the text of a cleared session_id), the token a
\* logIn was answered with, and the state of the client that sent it
Request(op, token, returned, via) ==
    [op |-> op, token |-> token, returned |-> returned, via |-> via]

\* `not self.http_client or not self.session_id` is false
session_ready(sess) ==
    sess.http_client # "none" /\ sess.session_id # 0

\* the body is formatted with self.session_id and handed to
\* self.http_client.post with no await in between; a closed AsyncClient
\* raises RuntimeError before sending and None has no post: nothing is sent
polarion_post(sess, op) ==
    IF sess.http_client = "open"
    THEN [sess EXCEPT !.requests =
              Append(@, Request(op, sess.session_id, 0, sess.http_client))]
    ELSE sess

\* _authenticate: logIn goes out under an empty header; session_id is
\* assigned only from a logInReturn element
authenticate(sess, login) ==
    IF login = "ok"
    THEN [sess EXCEPT !.requests =
                          Append(@, Request("logIn", 0, sess.logins + 1, sess.http_client)),
                      !.session_id = sess.logins + 1,
                      !.logins = sess.logins + 1]
    ELSE [sess EXCEPT !.requests =
                          Append(@, Request("logIn", 0, 0, sess.http_client))]

\* initialize: a new AsyncClient, _authenticate, then test_connection, which
\* posts getProjects; a failed logIn returns False and leaves the client set
polarion_initialize(sess, login) ==
    IF login = "ok"
    THEN polarion_post(authenticate([sess EXCEPT !.http_client = "open"], login),
                       "get_projects")
    ELSE authenticate([sess EXCEPT !.http_client = "open"], login)

\* what a contract operation answered, and whether it posted a request
SessionAnswer(sess, op, out) ==
    [op |-> op, token |-> sess.session_id, success |-> out.success,
     error |-> out.error, sent |-> out.called /\ sess.http_client = "open"]

\* a contract operation on the session: the stubs answer at once, the others
\* check client and token, then post; a post that raises is caught
session_op(sess, op, fail) ==
    [(IF polarion_contract_op(op, session_ready(sess), "PROJ", "1", fail).called
      THEN polarion_post(sess, op)
      ELSE sess)
     EXCEPT !.answer =
         SessionAnswer(sess, op,
             polarion_contract_op(op, session_ready(sess), "PROJ", "1",
                 IF sess.http_client = "open" THEN fail ELSE "exception"))]

\* sync_project up to its loop: client and token are checked here, once
sync_begin(sess, n) ==
    IF ~session_ready(sess)
    THEN [sess EXCEPT !.results = <<>>,
                      !.answer = [op |-> "sync_project", token |-> sess.session_id,
                                  success |-> FALSE,
                                  error |-> "Polarion client not initialized",
                                  sent |-> FALSE]]
    ELSE [sess EXCEPT !.results = <<>>, !.todo = n, !.pc = "send"]

\* the loop body's tail: the record is counted or put in errors, next record
sync_record_done(sess, outcome, request) ==
    [sess EXCEPT !.results = Append(@, [outcome |-> outcome, request |-> request]),
                 !.todo = sess.todo - 1,
                 !.inflight = 0,
                 !.pc = IF sess.todo = 1 THEN "idle" ELSE "send"]

\* _create_polarion_work_item up to `await self.http_client.post`: the post
\* goes out and the coroutine waits, or it raises and the except clause
\* answers success False
sync_send(sess) ==
    IF sess.http_client = "open"
    THEN [polarion_post(sess, "createWorkItem")
             EXCEPT !.pc = "await", !.inflight = Len(sess.requests) + 1]
    ELSE sync_record_done(sess, "error", 0)

\* _create_polarion_work_item after the await: status 200 with a return
\* element is success, anything else or an exception is an error
sync_receive(sess, fail) ==
    sync_record_done(sess, IF fail = "ok" THEN "synced" ELSE "error", sess.inflight)

\* mutant: the token is cleared before the client is closed
cleanup_token_first(sess) ==
    [sess EXCEPT !.session_id = 0, !.closing = sess.http_client # "none"]

\* cleanup up to `await self.http_client.aclose()`: aclose marks the client
\* closed before it waits for the transport; without a client cleanup runs
\* to its end at once
cleanup_begin(sess) ==
    IF sess.http_client # "none"
    THEN [sess EXCEPT !.http_client = "closed", !.closing = TRUE]
    ELSE [sess EXCEPT !.session_id = 0]

\* cleanup after the await: client and token are cleared together; when
\* aclose raised, the except clause logs and both stay as they were
cleanup_end(sess, fail) ==
    IF fail = "ok"
    THEN [sess EXCEPT !.http_client = "none", !.session_id = 0, !.closing = FALSE]
    ELSE [sess EXCEPT !.closing = FALSE]

InitSession ==
    /\ FactoryIdle
    /\ OthersIdle
    /\ kind = "polarion"
    /\ client = FALSE
    /\ sync_config = SyncConfig("polarion", Absent, Absent, <<>>)
    /\ records \in Catalogs
    /\ remote = <<>>
    /\ parked = NoParked
    /\ last = NoCall
    /\ session = NoSession

\* the caller initializes the adapter while nothing else runs on it
SessionInitialize(login) ==
    /\ session.pc = "idle"
    /\ ~session.closing
    /\ session.logins < MaxLogins
    /\ Len(session.requests) + 2 <= MaxRequests
    /\ session' = polarion_initialize(session, login)
    /\ UNCHANGED <<kind, client, sync_config, records, remote, last, parked,
                   factoryVars, mlast, olast>>

SessionOp(op, fail) ==
    /\ Len(session.requests) < MaxRequests
    /\ session' = session_op(session, op, fail)
    /\ UNCHANGED <<kind, client, sync_config, records, remote, last, parked,
                   factoryVars, mlast, olast>>

SyncBegin(n) ==
    /\ session.pc = "idle"
    /\ session' = sync_begin(session, n)
    /\ UNCHANGED <<kind, client, sync_config, records, remote, last, parked,
                   factoryVars, mlast, olast>>

SyncSend ==
    /\ session.pc = "send"
    /\ Len(session.requests) < MaxRequests
    /\ session' = sync_send(session)
    /\ UNCHANGED <<kind, client, sync_config, records, remote, last, parked,
                   factoryVars, mlast, olast>>

SyncReceive(fail) ==
    /\ session.pc = "await"
    /\ session' = sync_receive(session, fail)
    /\ UNCHANGED <<kind, client, sync_config, records, remote, last, parked,
                   factoryVars, mlast, olast>>

CleanupBegin ==
    /\ ~session.closing
    /\ session' = cleanup_begin(session)
    /\ UNCHANGED <<kind, client, sync_config, records, remote, last, parked,
                   factoryVars, mlast, olast>>

CleanupEnd(fail) ==
    /\ session.closing
    /\ session' = cleanup_end(session, fail)
    /\ UNCHANGED <<kind, client, sync_config, records, remote, last, parked,
                   factoryVars, mlast, olast>>

NextSession ==
    \/ \E login \in FailKinds : SessionInitialize(login)
    \/ \E op \in SessionOps, fail \in FailKinds : SessionOp(op, fail)
    \/ \E n \in 1..MaxBatch : SyncBegin(n)
    \/ SyncSend
    \/ \E fail \in FailKinds : SyncReceive(fail)
    \/ CleanupBegin
    \/ \E fail \in {"ok", "exception"} : CleanupEnd(fail)

SpecSession == InitSession /\ [][NextSession]_vars

\* the token the latest successful logIn among the first n requests returned
\* (0: no logIn has succeeded)
LoginToken(requests, n) ==
    IF \A j \in 1..n : requests[j].op # "logIn" \/ requests[j].returned = 0
    THEN 0
    ELSE requests[CHOOSE j \in 1..n :
                      /\ requests[j].op = "logIn" /\ requests[j].returned # 0
                      /\ \A k \in (j + 1)..n :
                             requests[k].op # "logIn" \/ requests[k].returned = 0].returned

\* every request but logIn follows a successful logIn and carries its token
RequestsCarryLoginToken ==
    \A i \in 1..Len(session.requests) :
        session.requests[i].op # "logIn" =>
            /\ LoginToken(session.requests, i - 1) # 0
            /\ session.requests[i].token = LoginToken(session.requests, i - 1)

\* C21: the Polarion adapter posts nothing but logIn before a logIn has
\* succeeded, every later request carries the token that logIn returned, and
\* every operation invoked while the adapter holds no session token answers
\* 'not initialized' without posting anything
C21_TokenGuardsEveryOperation ==
    /\ RequestsCarryLoginToken
    /\ (session.answer.op # "none" /\ session.answer.token = 0) =>
           /\ ~session.answer.success
           /\ session.answer.error = "Polarion client not initialized"
           /\ ~session.answer.sent

\* the part of C21 the code keeps: the operations that are not stubs
C21_CheckedOperations ==
    /\ RequestsCarryLoginToken
    /\ (/\ session.answer.op # "none"
        /\ session.answer.op \notin PolarionStubs
        /\ session.answer.token = 0) =>
           /\ ~session.answer.success
           /\ session.answer.error = "Polarion client not initialized"
           /\ ~session.answer.sent

\* the requests sync_project posted
SyncRequests ==
    {i \in 1..Len(session.requests) : session.requests[i].op = "createWorkItem"}

\* C27: with cleanup interleaved at the await points of a running
\* sync_project, every request the sync posts carries the token of the
\* logIn, none goes out with a cleared token or through a closed client,
\* and every record counted as synced rests on such a request
C27_SyncRequestsCarryLoginToken ==
    /\ \A i \in SyncRequests :
           /\ session.requests[i].token # 0
           /\ session.requests[i].token = LoginToken(session.requests, i - 1)
           /\ session.requests[i].via = "open"
    /\ \A r \in 1..Len(session.results) :
           session.results[r].outcome = "synced" =>
               /\ session.results[r].request \in SyncRequests
               /\ session.requests[session.results[r].request].token # 0
               /\ session.requests[session.results[r].request].via = "open"

\* cleanup ran to its end between two records of one sync: the first was
\* posted and synced, the post of the second raised and nothing went out
C27_Witness ==
    /\ Len(session.results) = 2
    /\ session.results[1].outcome = "synced"
    /\ session.results[2] = [outcome |-> "error", request |-> 0]
    /\ session.http_client = "none"
    /\ session.session_id = 0

====
